---- MODULE Spec2Model ----
(***************************************************************************)
(* State-machine model of the scan job engine of soc_gui_netscan:          *)
(*   - the scheduler substrate (Redis list soc:scan_queue, set             *)
(*     soc:scan_cancel, channels soc:scan:<id>),                           *)
(*   - the API handlers create_scan / cancel_scan / import_devices,        *)
(*   - the worker's _process_scan with its on_progress hook, driving       *)
(*     run_full_pipeline, and _persist_results on the device inventory.    *)
(* Three specifications share the state: Spec (the life of one scan job),  *)
(* SpecQueue (the queue under concurrent polling) and SpecInv (the device  *)
(* inventory under scans, exports and imports).                            *)
(***************************************************************************)
EXTENDS Integers, Sequences, FiniteSets, TLC

(* ------------------------------ bounds --------------------------------- *)
NumJobs == 3
NumWorkers == 2
MaxFaults == 1
MaxCancels == 1
MaxScans == 2
NumSinks == 3
MaxMsgs == 2
MaxPings == 1
NumAnalyses == 2
NumReqs == 2
MaxPipelines == 1
MaxHosts == 52
MaxLoopJobs == 8
MaxEstimate == 2050
MaxDrops == 1

Jobs == 1..NumJobs
Workers == 1..NumWorkers

(* Optional values: None is the empty tuple, a present value v is <<v>>.   *)
None == << >>
Some(v) == <<v>>
IsSet(x) == x # None

Min(a, b) == IF a <= b THEN a ELSE b

(* ------------------------- ScanStatus (enum) --------------------------- *)
PENDING == "pending"
RUNNING == "running"
COMPLETED == "completed"
FAILED == "failed"
CANCELLED == "cancelled"
ScanStatus == {PENDING, RUNNING, COMPLETED, FAILED, CANCELLED}
Terminal == {COMPLETED, FAILED, CANCELLED}

(* Scan row as INSERTed by create_scan: column defaults of the model.      *)
NewScan(t) ==
    [ status |-> PENDING, current_stage |-> 0, stage_label |-> None,
      hosts_discovered |-> 0, live_hosts |-> 0, open_ports_found |-> 0,
      created_at |-> Some(t), started_at |-> None, completed_at |-> None,
      error_message |-> None ]

(* stage_labels of _process_scan, by stage number.                         *)
stage_labels ==
    << "Ping Sweep", "ARP MAC Lookup", "Port Scanning",
       "Deep Scan (SYN + Version + Scripts + OS)" >>

StageLabel(cur) == IF cur > 0 THEN stage_labels[cur] ELSE "Initializing"

(* str(e)[:2000] -- an exception text is modelled by its origin and its    *)
(* length; a prefix of it has the same origin and the shorter length.      *)
ErrMsgMax == 2000
ErrEventMax == 500
(* Faulty variant: the text is stored uncut.                               *)
Untruncated(e, n) == e
Truncate(e, n) == [kind |-> e.kind, len |-> Min(e.len, n)]

(* ----------------------- in-flight host records ------------------------ *)
(* Texts that the code cuts or rewrites are sequences of characters.       *)
(* The addresses that answer the ping sweep of the scanned target.         *)
AllIPs ==
    << <<"1","9","2",".","1","6","8",".","1",".","1","0">>,
       <<"1","9","2",".","1","6","8",".","1",".","2","0">> >>
IPs == { AllIPs[i] : i \in 1..Len(AllIPs) }
IpIndex(ip) == CHOOSE i \in 1..Len(AllIPs) : AllIPs[i] = ip

(* The link-layer address a device answers with on the wire.               *)
WireMac(ip) == << "M", ToString(IpIndex(ip)) >>

(* The open-port lists a port scan of one host may report.                 *)
PortLists == { << >>, << 22 >>, << 22, 80 >> }

Take(s, n) == SubSeq(s, 1, Min(n, Len(s)))
Replace(s, a, b) == [i \in 1..Len(s) |-> IF s[i] = a THEN b ELSE s[i]]

(* mac = dh.mac or f"00:00:{dh.ip.replace('.', ':')[:8]}"                  *)
SurrogateMac(ip) == <<"0","0",":","0","0",":">> \o Take(Replace(ip, ".", ":"), 8)
EffectiveMac(dh) == IF dh.mac # None THEN dh.mac[1] ELSE SurrogateMac(dh.ip)

(* DiscoveredHost(ip=ip): the dataclass defaults.                          *)
DiscoveredHost(ip) ==
    [ ip |-> ip, mac |-> None, vendor |-> None, hostname |-> None,
      is_up |-> TRUE, open_ports |-> << >>,
      os_name |-> None, os_family |-> None, os_accuracy |-> None,
      os_cpe |-> None, services |-> << >>, nmap_xml |-> None ]

(* Python's `a or b` on optional texts and `a if a else b` on numbers.     *)
OrText(a, b) == IF a # None /\ a # Some("") THEN a ELSE b
OrNum(a, b) == IF a # None /\ a # Some(0) THEN a ELSE b

(* ------------------------- device inventory ---------------------------- *)
(* hosts: mac -> Host row; ports: mac -> the host's Port rows; rows: mac   *)
(* -> the number of rows of table hosts that carry this mac_address.       *)
EmptyInv == [ hosts |-> << >>, ports |-> << >>, rows |-> << >> ]

(* Faulty variant: the table accepts a second row with the same key.       *)
KeyUnchecked(inv, mac) == TRUE
(* mac_address is the primary key of hosts: an INSERT of a key the table   *)
(* holds raises IntegrityError.                                            *)
PrimaryKeyFree(inv, mac) == mac \notin DOMAIN inv.rows

(* Host(mac_address=mac) before its first flush, with column defaults.     *)
NewHost(mac) ==
    [ mac_address |-> mac, scan_id |-> None, ip_address |-> None,
      hostname |-> None, vendor |-> None, os_name |-> None,
      os_family |-> None, os_accuracy |-> None, os_cpe |-> None,
      is_up |-> TRUE, nmap_raw_xml |-> None, firmware_url |-> None,
      firmware_status |-> None, risk_report |-> None, risk_score |-> None,
      open_port_count |-> 0, last_seen |-> None ]

HostRowOf(inv, mac) ==
    IF mac \in DOMAIN inv.hosts THEN inv.hosts[mac] ELSE NewHost(mac)
PortRowsOf(inv, mac) ==
    IF mac \in DOMAIN inv.ports THEN inv.ports[mac] ELSE << >>

(* Port(...) built from one entry of dh.services.                          *)
ServicePort(svc) ==
    [ port_number |-> svc.port, protocol |-> svc.protocol, state |-> svc.state,
      service_name |-> svc.name, service_version |-> svc.version,
      service_product |-> svc.product ]
(* Port(...) built from a bare open port number.                           *)
PlainPort(pn) ==
    [ port_number |-> pn, protocol |-> "tcp", state |-> "open",
      service_name |-> None, service_version |-> None,
      service_product |-> None ]

NewPortRows(dh) ==
    [ i \in 1..Len(dh.services) |-> ServicePort(dh.services[i]) ]
    \o (IF dh.services = << >> /\ dh.open_ports # << >>
        THEN [ i \in 1..Len(dh.open_ports) |-> PlainPort(dh.open_ports[i]) ]
        ELSE << >>)

(* host.open_port_count = len(dh.open_ports)                               *)
PortCountCache(dh) == Len(dh.open_ports)

(* The body of the loop of _persist_results for one discovered host.       *)
UpsertHost(inv, scanId, dh, t) ==
    LET mac == EffectiveMac(dh)
        old == HostRowOf(inv, mac)
        row == [ old EXCEPT
                   !.scan_id = Some(scanId),
                   !.ip_address = Some(dh.ip),
                   !.hostname = OrText(dh.hostname, old.hostname),
                   !.vendor = OrText(dh.vendor, old.vendor),
                   !.os_name = OrText(dh.os_name, old.os_name),
                   !.os_family = OrText(dh.os_family, old.os_family),
                   !.os_accuracy = OrNum(dh.os_accuracy, old.os_accuracy),
                   !.os_cpe = OrText(dh.os_cpe, old.os_cpe),
                   !.is_up = dh.is_up,
                   !.nmap_raw_xml = OrText(dh.nmap_xml, old.nmap_raw_xml),
                   !.last_seen = Some(t),
                   !.open_port_count = PortCountCache(dh) ]
    IN  [ hosts |-> (mac :> row) @@ inv.hosts,
          ports |-> (mac :> NewPortRows(dh)) @@ inv.ports,
          rows |-> inv.rows @@ (mac :> 1) ]

RECURSIVE PersistHosts(_, _, _, _)
PersistHosts(inv, scanId, hosts, t) ==
    IF hosts = << >> THEN inv
    ELSE PersistHosts(UpsertHost(inv, scanId, Head(hosts), t), scanId, Tail(hosts), t)

RECURSIVE SumLen(_)
SumLen(rows) ==
    IF rows = << >> THEN 0 ELSE Len(Head(rows)) + SumLen(Tail(rows))

(* total_ports returned by _persist_results.                               *)
TotalPorts(hosts) == SumLen([ i \in 1..Len(hosts) |-> NewPortRows(hosts[i]) ])

(* The macs of a job's result for which `select(Host)` found a row.        *)
HostMacs(hosts) == { EffectiveMac(hosts[i]) : i \in 1..Len(hosts) }
SelectedHosts(inv, hosts) == HostMacs(hosts) \cap DOMAIN inv.rows

(* The session's flush: the hosts whose select found no row are INSERTed,  *)
(* the others UPDATEd; ports are deleted and written anew.                 *)
FlushHosts(inv, known, scanId, hosts, t) ==
    LET after == PersistHosts(inv, scanId, hosts, t)
        fresh == HostMacs(hosts) \ known
    IN  [ after EXCEPT !.rows =
            [ mac \in DOMAIN after.rows |->
                IF mac \in fresh /\ mac \in DOMAIN inv.rows
                THEN inv.rows[mac] + 1 ELSE after.rows[mac] ] ]
KeyConflict(inv, known, hosts) ==
    \E mac \in HostMacs(hosts) \ known : ~PrimaryKeyFree(inv, mac)

(* _load_existing_hosts: mac -> open_port_count.                           *)
LoadExistingHosts(inv) ==
    [ m \in DOMAIN inv.hosts |-> inv.hosts[m].open_port_count ]

(* _host_to_dict: the exported fields of a host and of its port rows.      *)
PortToDict(p) ==
    [ port_number |-> p.port_number, protocol |-> p.protocol, state |-> p.state,
      service_name |-> p.service_name, service_version |-> p.service_version,
      service_product |-> p.service_product ]
HostToDict(inv, mac) ==
    LET host == inv.hosts[mac]
        rows == PortRowsOf(inv, mac)
    IN  [ mac_address |-> host.mac_address, ip_address |-> host.ip_address,
          hostname |-> host.hostname, vendor |-> host.vendor,
          os_name |-> host.os_name, os_family |-> host.os_family,
          os_accuracy |-> host.os_accuracy, os_cpe |-> host.os_cpe,
          is_up |-> host.is_up, firmware_url |-> host.firmware_url,
          open_port_count |-> host.open_port_count,
          last_seen |-> host.last_seen,
          ports |-> [ i \in 1..Len(rows) |-> PortToDict(rows[i]) ] ]

(* export_devices: the content written to devices.json, one entry per host.*)
ExportAll(inv) == [ mac \in DOMAIN inv.hosts |-> HostToDict(inv, mac) ]

(* import_devices, the loop body: a field of the payload that is None      *)
(* leaves the column alone; is_up and open_port_count are always written;  *)
(* the payload's ports are not read.                                       *)
(* Faulty variant: the payload's value is written even when it is None.    *)
AlwaysTaken(val, cur) == val
IfGiven(val, cur) == IF val # None THEN val ELSE cur
ImportHost(old, dev) ==
    [ old EXCEPT !.ip_address = IfGiven(dev.ip_address, @),
                 !.hostname = IfGiven(dev.hostname, @),
                 !.vendor = IfGiven(dev.vendor, @),
                 !.os_name = IfGiven(dev.os_name, @),
                 !.os_family = IfGiven(dev.os_family, @),
                 !.os_accuracy = IfGiven(dev.os_accuracy, @),
                 !.os_cpe = IfGiven(dev.os_cpe, @),
                 !.firmware_url = IfGiven(dev.firmware_url, @),
                 !.is_up = dev.is_up,
                 !.open_port_count = dev.open_port_count,
                 !.last_seen = IfGiven(dev.last_seen, @) ]
ImportAll(inv, devices) ==
    [ hosts |-> [ mac \in DOMAIN inv.hosts \cup DOMAIN devices |->
                    IF mac \in DOMAIN devices
                    THEN ImportHost(HostRowOf(inv, mac), devices[mac])
                    ELSE inv.hosts[mac] ],
      ports |-> inv.ports,
      rows |-> inv.rows @@ [ mac \in DOMAIN devices |-> 1 ] ]

(* --------------------------- scan pipeline ----------------------------- *)
(* The lists that hold, at each position i, one of the outcomes outs[i]    *)
(* of the per-host task started for the i-th host.                         *)
Choices(outs) ==
    LET n == Len(outs)
        U == UNION { outs[i] : i \in 1..n }
    IN  { s \in [1..n -> U] : \A i \in 1..n : s[i] \in outs[i] }

(* The scan targets: the subnet holding all of IPs, or one address alone.  *)
Subnet == IPs
Targets == { Subnet } \cup { { ip } : ip \in IPs }

(* stage1_ping_sweep: the hosts parsed from the ping sweep's XML, each     *)
(* address of the target at most once, with the MAC when the sweep         *)
(* reported it.                                                            *)
Stage1Host(ip) ==
    { DiscoveredHost(ip), [ DiscoveredHost(ip) EXCEPT !.mac = Some(WireMac(ip)) ] }
Stage1Lists(target) ==
    UNION { LET found == SelectSeq(AllIPs, LAMBDA ip : ip \in S)
            IN  Choices([ i \in 1..Len(found) |-> Stage1Host(found[i]) ])
              : S \in SUBSET target }

(* _arp_lookup_single: a host with a MAC is returned as is; otherwise the  *)
(* probes resolve the MAC or leave it unset.                               *)
ArpNeedsProbe(h) == h.mac = None
ArpOutcomes(h) ==
    IF ~ArpNeedsProbe(h) THEN { h }
    ELSE { h, [ h EXCEPT !.mac = Some(WireMac(h.ip)) ] }

(* stage2_arp_lookup: the list it returns.                                 *)
Stage2Outcomes(hosts) ==
    Choices([ i \in 1..Len(hosts) |-> ArpOutcomes(hosts[i]) ])

(* _rustscan_single: the open ports found for the host.                    *)
PortScanOutcomes(h) == { [ h EXCEPT !.open_ports = ps ] : ps \in PortLists }
(* stage3_port_scan: the list it returns when no per-host task raises.     *)
Stage3Outcomes(hosts) ==
    Choices([ i \in 1..Len(hosts) |-> PortScanOutcomes(hosts[i]) ])

(* _deep_scan_single on a host with open ports: the tool fails and the     *)
(* host is returned unchanged, or the XML is parsed into OS and services.  *)
Service(p, st) ==
    [ port |-> p, protocol |-> "tcp", state |-> st, name |-> Some("svc"),
      product |-> Some("prod"), version |-> Some("1.0") ]
DeepParsed(h, firstState) ==
    [ h EXCEPT !.nmap_xml = Some("xml"),
               !.os_name = Some("Linux"), !.os_family = Some("Linux"),
               !.os_accuracy = Some(95), !.os_cpe = Some("cpe:/o:linux"),
               !.services = [ i \in 1..Len(h.open_ports) |->
                                Service(h.open_ports[i],
                                        IF i = 1 THEN firstState ELSE "open") ] ]
(* What the service scan of one host reports: nothing usable, every port  *)
(* open, or the first port filtered.                                       *)
DeepReports == { "failed", "open", "filtered" }
DeepApply(h, r) == IF r = "failed" THEN h ELSE DeepParsed(h, r)
DeepOutcomes(h) ==
    IF h.open_ports = << >> THEN { h }
    ELSE { DeepApply(h, r) : r \in DeepReports }

(* stage4_deep_scan: the hosts that get a deep scan.                       *)
SkipUnchanged(existing, h) ==
    LET mac == EffectiveMac(h)
        existing_count == IF mac \in DOMAIN existing THEN existing[mac] ELSE 0 - 1
    IN  existing_count = Len(h.open_ports) /\ existing_count > 0
(* Faulty variant: every host with open ports is a target.                 *)
NeverSkipped(existing, h) == h.open_ports # << >>
IsDeepTarget(existing, h) ==
    /\ h.open_ports # << >>
    /\ ~(existing # << >> /\ SkipUnchanged(existing, h))
DeepTargets(existing, hosts) ==
    SelectSeq(hosts, LAMBDA h : IsDeepTarget(existing, h))
Stage4Outcomes(existing, hosts) ==
    Choices([ i \in 1..Len(hosts) |->
                IF IsDeepTarget(existing, hosts[i]) THEN DeepOutcomes(hosts[i])
                ELSE { hosts[i] } ])

(* stage4_deep_scan when the service scan of the i-th host reports deep[i].*)
Stage4Report(existing, hosts, deep) ==
    [ i \in 1..Len(hosts) |->
        IF IsDeepTarget(existing, hosts[i]) THEN DeepApply(hosts[i], deep[i])
        ELSE hosts[i] ]

(* Faulty variant: the pipeline goes on with an empty host list.           *)
EmptySweepUnnoticed(hosts) == FALSE
(* run_full_pipeline: `if not hosts:` after stage 1.                       *)
NoLiveHosts(hosts) == hosts = << >>

(* run_full_pipeline when no hook raises: the lists it can return.         *)
RunFullPipeline(target, existing) ==
    UNION { IF NoLiveHosts(L1) THEN { << >> }
            ELSE UNION { UNION { Stage4Outcomes(existing, L3)
                                   : L3 \in Stage3Outcomes(L2) }
                           : L2 \in Stage2Outcomes(L1) }
              : L1 \in Stage1Lists(target) }

(* What the tools report in one run on a target: the hosts with MAC and    *)
(* open ports as stages 1 to 3 found them, and a service report per host.  *)
ToolReports ==
    UNION { UNION { UNION { { [ hosts |-> L3, deep |-> d ]
                                : d \in [ 1..Len(L3) -> DeepReports ] }
                              : L3 \in Stage3Outcomes(L2) }
                      : L2 \in Stage2Outcomes(L1) }
              : L1 \in UNION { Stage1Lists(target) : target \in Targets } }
(* run_full_pipeline when the tools answer with the given report.          *)
RunWithReport(existing, report) ==
    IF NoLiveHosts(report.hosts) THEN << >>
    ELSE Stage4Report(existing, report.hosts, report.deep)

(* =============================== state ================================= *)
VARIABLES
    queue,        \* Redis list soc:scan_queue
    cancelSet,    \* Redis set soc:scan_cancel
    chan,         \* chan[j]: the messages published on soc:scan:<j>, in order
    scans,        \* scans[j]: the row of table scans for job j
    rowState,     \* rowState[j]: "none", "flushed", "committed" or "aborted"
    logs,         \* logs[j]: the scan_logs rows of job j, in insertion order
    inv,          \* tables hosts and ports
    devicesFile,  \* db_devices/devices.json, None while it does not exist
    task,         \* task[j]: the worker task _process_scan(j)
    polled,       \* polled[w]: what dequeue_scan last returned to worker w
    api,          \* api[j]: the cancel_scan request in flight for job j
    now,          \* the clock read by datetime.now() and func.now()
    faults,       \* datastore and publish calls that have failed so far
    hist,         \* history: ids in push order and in pop order
    connections,  \* ConnectionManager._connections: job -> its sinks, in order
    globalSinks,  \* ConnectionManager._global
    sent,         \* sent[ws]: the texts sent to websocket ws, in order
    pings,        \* pings[ws]: "ping" texts of the client not yet answered
    owed,         \* history: owed[ws], the payloads published while ws was registered
    started,      \* ScanScheduler._running in the API process
    firmwareConnections, \* ConnectionManager._firmware_connections
    bcast,        \* the call of ConnectionManager.broadcast_scan in progress
    loop,         \* worker_loop of one worker process, by numbers of jobs
    analyses,     \* table firmware_analyses: id -> row, None while not created
    fwQueue,      \* Redis list soc:firmware_queue
    fwCancel,     \* Redis set soc:firmware_cancel
    fwTask,       \* fwTask[f]: the task run_firmware_pipeline(f)
    fwReq         \* fwReq[r]: the firmware API request r in flight

scanVars == << queue, cancelSet, chan, scans, rowState, logs, inv, devicesFile,
               task, polled, api, now, faults, hist >>
hubVars == << connections, globalSinks, sent, pings, owed, started,
             firmwareConnections, bcast, loop >>
fwVars == << analyses, fwQueue, fwCancel, fwTask, fwReq >>
vars == << scanVars, hubVars, fwVars >>

(* ------------------------- scheduler substrate ------------------------- *)
(* r.rpush(SCAN_QUEUE_KEY, id)                                             *)
RPush(q, id) == Append(q, id)
(* Faulty variant: the pop takes the newest id, from the tail.             *)
BRPop(q) == [ value |-> q[Len(q)], rest |-> SubSeq(q, 1, Len(q) - 1) ]
(* r.blpop(SCAN_QUEUE_KEY): the popped id and the list left behind.        *)
BLPop(q) == [ value |-> Head(q), rest |-> Tail(q) ]
(* r.sadd / r.sismember / r.srem on CANCEL_SET_KEY                         *)
SAdd(set, id) == set \cup { id }
SIsMember(set, id) == id \in set
SRem(set, id) == set \ { id }

ProgressEvent(cur) ==
    [ type |-> "scan_progress", stage |-> cur, hosts |-> 0, ports |-> 0, error |-> None ]
CompletedEvent(nh, np) ==
    [ type |-> "scan_completed", stage |-> 0, hosts |-> nh, ports |-> np, error |-> None ]
FailedEvent(e) ==
    [ type |-> "scan_failed", stage |-> 0, hosts |-> 0, ports |-> 0,
      error |-> Some(Truncate(e, ErrEventMax)) ]
Publish(j, ev) == chan' = [ chan EXCEPT ![j] = Append(@, ev) ]

LogEntry(stage, level) == [ stage |-> stage, level |-> level ]
AddLog(j, stage, level) == logs' = [ logs EXCEPT ![j] = Append(@, LogEntry(stage, level)) ]

(* A datastore or publish call fails.                                      *)
CanFail == faults < MaxFaults
Fault == CanFail /\ faults' = faults + 1
NoFault == faults' = faults

DbError == [ kind |-> "db", len |-> 40 ]
RedisError == [ kind |-> "redis", len |-> 60 ]
ToolErrors == { [ kind |-> "tool", len |-> n ] : n \in { 80, ErrMsgMax + 500 } }

(* The per-host tasks of one stage of a pipeline run: waiting for the      *)
(* stage's semaphore, holding it with a tool invocation in flight, inside  *)
(* the stage-3 checkpoint of the hook, finished.                           *)
NoTasks == [ waiting |-> 0, inflight |-> 0, hook |-> 0, done |-> 0 ]
(* A run of run_full_pipeline seen task by task. stage: 0 before the call, *)
(* the stage being run, 5 after the return, 6 after an exception left the  *)
(* pipeline; given: the hosts given to the stage; t[k]: the per-host tasks *)
(* of stage k (for stage 1 the ping sweep); completed: completed[0] of     *)
(* stage 3; dropped: the tasks of the running stage that ended with an     *)
(* exception. History: calls (the stages called, in order), marks (the     *)
(* completion counts at which stage 3 invoked the hook); pending: the      *)
(* counts whose hook has not returned; pub: the counts k of the events     *)
(* "Scanned k/N" published, in order; summaryAt: the length of pub when    *)
(* the stage-3 summary hook was invoked.                                   *)
IdleRun ==
    [ stage |-> 0, given |-> 0, t |-> [ k \in 1..4 |-> NoTasks ], completed |-> 0,
      dropped |-> 0, calls |-> << >>, marks |-> << >>,
      pending |-> {}, pub |-> << >>, summaryAt |-> None ]

(* task[j]: pc and phase are the position of _process_scan(j); cur is      *)
(* current_stage[0]; hosts, existing and exc are its locals. History:      *)
(* tools (stages whose tool was started), loaded (status seen at load),    *)
(* s1empty (stage 1 yielded no hosts), raised (something was raised in     *)
(* the job), wrote (statuses the worker committed), hookAfterCancel (the   *)
(* hook checked the flag after cancel_scan set it for a running job),      *)
(* failSaved (the failure handler's session committed). known: the macs    *)
(* for which the persisting session's select found a host row. report:     *)
(* what the tools answered in the job's first run. run: the pipeline run   *)
(* of the job seen task by task. given: the hosts given to the stage that  *)
(* returned hosts, deep: the addresses the deep-scan tool was invoked for, *)
(* sweep: the host count estimated for the target and the timeout the ping *)
(* sweep was given.                                                        *)
IdleTask ==
    [ pc |-> "idle", phase |-> "check", owner |-> 0, cur |-> 0,
      hosts |-> << >>, existing |-> << >>, exc |-> None, tools |-> {},
      known |-> {}, report |-> None,
      loaded |-> None, s1empty |-> FALSE, raised |-> FALSE, wrote |-> << >>,
      hookAfterCancel |-> FALSE, failSaved |-> FALSE, run |-> IdleRun,
      given |-> << >>, deep |-> {}, sweep |-> None ]
(* bcast: pc is the position of the call of broadcast_scan (idle, send,    *)
(* done), id and message its arguments, targets the list it iterates over, *)
(* pos the sinks handled so far. History: atCall (the sinks registered     *)
(* under the id or globally when the call was made), elsewhere (the sinks  *)
(* then registered only under another scan id or a firmware id), attempted *)
(* (the sinks send_text was called on), failed (those whose send_text      *)
(* raised), raised (an exception left the call).                           *)
NoBroadcast ==
    [ pc |-> "idle", id |-> 0, message |-> None, targets |-> << >>, pos |-> 0,
      atCall |-> {}, elsewhere |-> {}, attempted |-> << >>, failed |-> {},
      raised |-> FALSE ]
(* api[j]: pc is the position of the cancel_scan request in flight, seen   *)
(* the status it read, n the requests made so far. History: flaggedRunning *)
(* / flaggedActive (the flag was set for a job read as running / not yet   *)
(* finished), committed (a request's session committed).                   *)
IdleApi ==
    [ pc |-> "idle", seen |-> None, n |-> 0,
      flaggedRunning |-> FALSE, flaggedActive |-> FALSE, committed |-> FALSE ]

(* The websockets that clients open, the firmware analysis ids and the     *)
(* firmware API requests.                                                  *)
Sinks == 1..NumSinks
FwIds == 1..NumAnalyses
Reqs == 1..NumReqs

(* run_firmware_pipeline before it is called: pc, the exception in flight. *)
(* logs (the log tree the analyzer left), out (what run_triage returned),  *)
(* posts (requests sent to the LLM endpoint) and file (ai_triage.md).      *)
(* History: wrote (statuses the pipeline committed), tools (adapters it    *)
(* called), flagged (a consulted cancel set held the id).                  *)
IdleFwTask ==
    [ pc |-> "idle", exc |-> None, logs |-> {}, out |-> None, posts |-> 0,
      file |-> None, wrote |-> << >>, tools |-> << >>, flagged |-> FALSE ]
(* A firmware API request before it arrives: pc, the handler, the hosts it *)
(* decided to create analyses for, the ids it created.                     *)
IdleReq == [ pc |-> "idle", handler |-> "none", hosts |-> << >>, ids |-> << >> ]

Init ==
    /\ queue = << >>
    /\ cancelSet = {}
    /\ chan = [ j \in Jobs |-> << >> ]
    /\ scans = [ j \in Jobs |-> NewScan(0) ]
    /\ rowState = [ j \in Jobs |-> "none" ]
    /\ logs = [ j \in Jobs |-> << >> ]
    /\ inv = EmptyInv
    /\ devicesFile = None
    /\ task = [ j \in Jobs |-> IdleTask ]
    /\ polled = [ w \in Workers |-> None ]
    /\ api = [ j \in Jobs |-> IdleApi ]
    /\ now = 1
    /\ faults = 0
    /\ hist = [ enq |-> << >>, deq |-> << >> ]
    /\ connections = << >>
    /\ globalSinks = << >>
    /\ sent = [ ws \in Sinks |-> << >> ]
    /\ pings = [ ws \in Sinks |-> 0 ]
    /\ owed = [ ws \in Sinks |-> << >> ]
    /\ started = FALSE
    /\ firmwareConnections = << >>
    /\ bcast = NoBroadcast
    /\ loop = [ created |-> 0, queued |-> 0, active |-> 0 ]
    /\ analyses = [ f \in FwIds |-> None ]
    /\ fwQueue = << >>
    /\ fwCancel = {}
    /\ fwTask = [ f \in FwIds |-> IdleFwTask ]
    /\ fwReq = [ r \in Reqs |-> IdleReq ]

Visible(j) == rowState[j] = "committed"
Finished(j) == task[j].pc \in { "done", "crashed" }

(* ------------------------------ create_scan ---------------------------- *)
(* The specification Spec follows one scan job, served by one worker,     *)
(* from its creation on; jobs meet only in the queue (SpecQueue) and in    *)
(* the inventory (SpecInv).                                                *)
Tracked == { CHOOSE j \in Jobs : TRUE }
Serving == { CHOOSE w \in Workers : TRUE }
(* db.add(scan); flush; refresh; scheduler.enqueue_scan(scan.id)           *)
CreateScan(j) ==
    /\ rowState[j] = "none"
    /\ \/ /\ NoFault
          /\ scans' = [ scans EXCEPT ![j] = NewScan(now) ]
          /\ rowState' = [ rowState EXCEPT ![j] = "flushed" ]
          /\ queue' = RPush(queue, j)
          /\ hist' = [ hist EXCEPT !.enq = Append(@, j) ]
          /\ now' = now + 1
       \/ /\ Fault
          /\ rowState' = [ rowState EXCEPT ![j] = "aborted" ]
          /\ UNCHANGED << scans, queue, hist, now >>
    /\ UNCHANGED << cancelSet, chan, logs, inv, devicesFile, task, polled, api >>
    /\ UNCHANGED << hubVars, fwVars >>

(* get_db: session.commit() after the handler returned.                    *)
CreateCommit(j) ==
    /\ rowState[j] = "flushed"
    /\ \/ NoFault /\ rowState' = [ rowState EXCEPT ![j] = "committed" ]
       \/ Fault /\ rowState' = [ rowState EXCEPT ![j] = "aborted" ]
    /\ UNCHANGED << queue, cancelSet, chan, scans, logs, inv, devicesFile,
                    task, polled, api, now, hist >>
    /\ UNCHANGED << hubVars, fwVars >>

(* ------------------------------ cancel_scan ---------------------------- *)
Cancellable(st) == st \in { PENDING, RUNNING }

(* select(Scan); 404 / 400 checks; scan.status = CANCELLED (in the session)*)
ApiCancelRead(j) ==
    /\ api[j].pc = "idle"
    /\ api[j].n < MaxCancels
    /\ Visible(j)
    /\ api' = [ api EXCEPT ![j].n = @ + 1,
                           ![j].seen = Some(scans[j].status),
                           ![j].pc = IF Cancellable(scans[j].status) THEN "flag" ELSE "idle" ]
    /\ UNCHANGED << queue, cancelSet, chan, scans, rowState, logs, inv,
                    devicesFile, task, polled, now, faults, hist >>
    /\ UNCHANGED << hubVars, fwVars >>

(* scheduler.cancel_scan(scan.id)                                          *)
ApiCancelFlag(j) ==
    /\ api[j].pc = "flag"
    /\ \/ /\ NoFault
          /\ cancelSet' = SAdd(cancelSet, j)
          /\ api' = [ api EXCEPT ![j].pc = "commit",
                                 ![j].flaggedRunning = @ \/ (api[j].seen = Some(RUNNING)),
                                 ![j].flaggedActive = @ \/ ~Finished(j) ]
       \/ /\ Fault
          /\ api' = [ api EXCEPT ![j].pc = "idle" ]
          /\ UNCHANGED cancelSet
    /\ UNCHANGED << queue, chan, scans, rowState, logs, inv, devicesFile,
                    task, polled, now, hist >>
    /\ UNCHANGED << hubVars, fwVars >>

(* db.flush(); db.refresh(scan); then get_db's session.commit()            *)
ApiCancelCommit(j) ==
    /\ api[j].pc = "commit"
    /\ \/ /\ NoFault
          /\ scans' = [ scans EXCEPT ![j].status = CANCELLED ]
          /\ api' = [ api EXCEPT ![j].pc = "idle", ![j].committed = TRUE ]
       \/ /\ Fault
          /\ api' = [ api EXCEPT ![j].pc = "idle" ]
          /\ UNCHANGED scans
    /\ UNCHANGED << queue, cancelSet, chan, rowState, logs, inv, devicesFile,
                    task, polled, now, hist >>
    /\ UNCHANGED << hubVars, fwVars >>

(* ------------------------------ worker_loop ---------------------------- *)
(* scan_id = await scheduler.dequeue_scan(timeout=2); create_task(...)     *)
WorkerDequeue(w) ==
    /\ queue # << >>
    /\ LET r == BLPop(queue)
           j == r.value
       IN  /\ queue' = r.rest
           /\ polled' = [ polled EXCEPT ![w] = Some(j) ]
           /\ hist' = [ hist EXCEPT !.deq = Append(@, << w, j >>) ]
           /\ task' = IF task[j].pc = "idle"
                      THEN [ task EXCEPT ![j].pc = "load", ![j].owner = w ]
                      ELSE task
    /\ UNCHANGED << cancelSet, chan, scans, rowState, logs, inv, devicesFile,
                    api, now, faults >>
    /\ UNCHANGED << hubVars, fwVars >>

(* blpop timed out: dequeue_scan returns None and the loop sleeps.         *)
WorkerDequeueEmpty(w) ==
    /\ queue = << >>
    /\ polled' = [ polled EXCEPT ![w] = None ]
    /\ UNCHANGED << queue, cancelSet, chan, scans, rowState, logs, inv,
                    devicesFile, task, api, now, faults, hist >>
    /\ UNCHANGED << hubVars, fwVars >>

(* ----------------------------- _process_scan --------------------------- *)
SetTask(j, t) == task' = [ task EXCEPT ![j] = t ]

(* An exception other than CancelledError leaves the try body.             *)
Failing(t, e) == [ t EXCEPT !.pc = "fail_persist", !.phase = "check",
                            !.exc = Some(e), !.raised = TRUE ]
(* asyncio.CancelledError leaves the try body.                             *)
Cancelling(t) == [ t EXCEPT !.pc = "cancel_persist", !.phase = "check", !.raised = TRUE ]

(* Faulty variant: the loaded status is not looked at.                     *)
CancelledUnnoticed(row) == FALSE
(* if scan.status == ScanStatus.CANCELLED: return                          *)
AlreadyCancelled(row) == row.status = CANCELLED

(* select(Scan); the not-found and already-cancelled returns;              *)
(* existing_hosts = await _load_existing_hosts(db)                         *)
WLoad(j) ==
    LET t == task[j] IN
    /\ t.pc = "load"
    /\ \/ /\ Fault
          /\ SetTask(j, Failing(t, DbError))
       \/ /\ NoFault
          /\ ~Visible(j)
          /\ SetTask(j, [ t EXCEPT !.pc = "done" ])
       \/ /\ NoFault
          /\ Visible(j)
          /\ SetTask(j, [ t EXCEPT
                 !.loaded = Some(scans[j].status),
                 !.existing = LoadExistingHosts(inv),
                 !.pc = IF AlreadyCancelled(scans[j]) THEN "done" ELSE "mark_running" ])
    /\ UNCHANGED << queue, cancelSet, chan, scans, rowState, logs, inv,
                    devicesFile, polled, api, now, hist >>
    /\ UNCHANGED << hubVars, fwVars >>

(* scan.status = RUNNING; scan.started_at = now; scan.current_stage = 0;   *)
(* commit                                                                  *)
WMarkRunning(j) ==
    LET t == task[j] IN
    /\ t.pc = "mark_running"
    /\ \/ /\ Fault
          /\ SetTask(j, Failing(t, DbError))
          /\ UNCHANGED << scans, now >>
       \/ /\ NoFault
          /\ scans' = [ scans EXCEPT ![j].status = RUNNING,
                                     ![j].started_at = Some(now),
                                     ![j].current_stage = 0 ]
          /\ now' = now + 1
          /\ SetTask(j, [ t EXCEPT !.pc = "s1_start", !.phase = "check",
                                   !.wrote = Append(@, RUNNING) ])
    /\ UNCHANGED << queue, cancelSet, chan, rowState, logs, inv, devicesFile,
                    polled, api, hist >>
    /\ UNCHANGED << hubVars, fwVars >>

(* The invocations of on_progress made by run_full_pipeline and its stages,*)
(* and the stage number each message names (0: the message names none).    *)
HookPcs ==
    { "s1_start", "s1_failed", "s1_found", "no_hosts", "s2_start", "s2_resolved",
      "s3_start", "s3_scanned", "s3_summary", "s4_start", "s4_none", "s4_os",
      "complete_msg" }
(* Faulty variant: the stage-4 messages are read as stage 1.               *)
StageMisread(pc) ==
    CASE pc \in { "s1_start", "s1_failed", "s1_found" } -> 1
      [] pc \in { "s2_start", "s2_resolved" } -> 2
      [] pc \in { "s3_start", "s3_scanned", "s3_summary" } -> 3
      [] pc \in { "s4_start", "s4_none", "s4_os" } -> 1
      [] OTHER -> 0
MsgStage(pc) ==
    CASE pc \in { "s1_start", "s1_failed", "s1_found" } -> 1
      [] pc \in { "s2_start", "s2_resolved" } -> 2
      [] pc \in { "s3_start", "s3_scanned", "s3_summary" } -> 3
      [] pc \in { "s4_start", "s4_none", "s4_os" } -> 4
      [] OTHER -> 0

(* The hook invocations awaited inside a per-host task that stage 3 runs   *)
(* under asyncio.gather(..., return_exceptions=True).                      *)
InGather(pc) == pc = "s3_scanned"

RemoveAt(s, i) == SubSeq(s, 1, i - 1) \o SubSeq(s, i + 1, Len(s))

At(t, pc) == [ t EXCEPT !.pc = pc, !.phase = "check" ]

(* What follows when the hook invoked at t.pc returns: the pipeline runs   *)
(* on, with every outcome of the tools it starts, up to its next hook      *)
(* invocation or its return.                                               *)
Succ(t) ==
    CASE t.pc = "s1_start" ->
            { Failing([ t EXCEPT !.tools = @ \cup { 1 } ], e) : e \in ToolErrors }
            \cup { [ At(t, "s1_failed") EXCEPT !.tools = @ \cup { 1 }, !.s1empty = TRUE ] }
            \cup { [ At(t, "s1_found") EXCEPT !.tools = @ \cup { 1 }, !.hosts = L,
                                             !.s1empty = (L = << >>) ] : L \in Stage1Lists(Subnet) }
      [] t.pc = "s1_failed" -> { At(t, "no_hosts") }
      [] t.pc = "s1_found" ->
            { IF NoLiveHosts(t.hosts) THEN At(t, "no_hosts") ELSE At(t, "s2_start") }
      [] t.pc = "no_hosts" -> { [ At(t, "complete") EXCEPT !.hosts = << >> ] }
      [] t.pc = "s2_start" ->
            { [ At(t, "s2_resolved") EXCEPT
                  !.hosts = L,
                  !.tools = IF \E i \in 1..Len(t.hosts) : ArpNeedsProbe(t.hosts[i])
                            THEN @ \cup { 2 } ELSE @ ] : L \in Stage2Outcomes(t.hosts) }
      [] t.pc = "s2_resolved" -> { At(t, "s3_start") }
      [] t.pc = "s3_start" ->
            { [ At(t, "s3_scanned") EXCEPT !.hosts = L, !.tools = @ \cup { 3 } ]
                : L \in Stage3Outcomes(t.hosts) }
      [] t.pc = "s3_scanned" -> { At(t, "s3_summary") }
      [] t.pc = "s3_summary" ->
            { IF t.hosts = << >> THEN At(t, "complete_msg") ELSE At(t, "s4_start") }
      [] t.pc = "s4_start" ->
            IF DeepTargets(t.existing, t.hosts) = << >>
            THEN { At(t, "s4_none") }
            ELSE { [ At(t, "s4_os") EXCEPT !.hosts = L, !.tools = @ \cup { 4 } ]
                     : L \in Stage4Outcomes(t.existing, t.hosts) }
      [] t.pc = "s4_none" -> { At(t, "complete_msg") }
      [] t.pc = "s4_os" -> { At(t, "complete_msg") }
      [] t.pc = "complete_msg" -> { At(t, "complete") }

(* What follows when the hook invoked at t.pc raises: inside gather the    *)
(* raising per-host task yields no host and the stage goes on; elsewhere   *)
(* the exception unwinds the pipeline into _process_scan's handlers.       *)
Unwound(t, handler) ==
    IF InGather(t.pc)
    THEN { [ At(t, "s3_summary") EXCEPT !.hosts = RemoveAt(@, i), !.raised = TRUE ]
             : i \in 1..Len(t.hosts) }
    ELSE { handler }
HookRaises(t, e) == Unwound(t, Failing(t, e))
(* Faulty variant: the hook goes on although the cancel flag is set.       *)
FlagIgnored(t) == { [ t EXCEPT !.phase = "write" ] }
HookCancels(t) == Unwound(t, Cancelling(t))

(* on_progress, first half: current_stage[0] from the message, then        *)
(* `if await scheduler.is_cancelled(scan_id): raise CancelledError`.       *)
HookCheck(j) ==
    LET t0 == task[j]
        t == [ t0 EXCEPT !.cur = IF MsgStage(t0.pc) > 0 THEN MsgStage(t0.pc) ELSE @,
                         !.hookAfterCancel = @ \/ api[j].flaggedRunning ]
    IN
    /\ t0.pc \in HookPcs
    /\ t0.phase = "check"
    /\ \/ /\ Fault
          /\ \E t2 \in HookRaises(t, RedisError) : SetTask(j, t2)
       \/ /\ NoFault
          /\ SIsMember(cancelSet, j)
          /\ \E t2 \in HookCancels(t) : SetTask(j, t2)
       \/ /\ NoFault
          /\ ~SIsMember(cancelSet, j)
          /\ SetTask(j, [ t EXCEPT !.phase = "write" ])
    /\ UNCHANGED << queue, cancelSet, chan, scans, rowState, logs, inv,
                    devicesFile, polled, api, now, hist >>
    /\ UNCHANGED << hubVars, fwVars >>

(* on_progress, second half: the progress_db session (its errors are       *)
(* logged and dropped), then scheduler.publish_progress(scan_progress).    *)
HookWrite(j) ==
    LET t == task[j] IN
    /\ t.pc \in HookPcs
    /\ t.phase = "write"
    /\ \/ /\ scans' = [ scans EXCEPT ![j].current_stage = t.cur,
                                     ![j].stage_label = Some(StageLabel(t.cur)) ]
          /\ AddLog(j, t.cur, "info")
          /\ \/ /\ NoFault
                /\ Publish(j, ProgressEvent(t.cur))
                /\ \E t2 \in Succ(t) : SetTask(j, t2)
             \/ /\ Fault
                /\ UNCHANGED chan
                /\ \E t2 \in HookRaises(t, RedisError) : SetTask(j, t2)
       \/ /\ UNCHANGED << scans, logs >>
          /\ \/ /\ Fault
                /\ Publish(j, ProgressEvent(t.cur))
                /\ \E t2 \in Succ(t) : SetTask(j, t2)
             \/ /\ faults + 2 <= MaxFaults
                /\ faults' = faults + 2
                /\ UNCHANGED chan
                /\ \E t2 \in HookRaises(t, RedisError) : SetTask(j, t2)
    /\ UNCHANGED << queue, cancelSet, rowState, inv, devicesFile, polled, api,
                    now, hist >>
    /\ UNCHANGED << hubVars, fwVars >>

CountUp(hosts) == Cardinality({ i \in 1..Len(hosts) : hosts[i].is_up })

(* The row written when the pipeline has returned.                         *)
CompletedRow(row, hosts, t) ==
    [ row EXCEPT !.status = COMPLETED,
                 !.completed_at = Some(t),
                 !.current_stage = 4,
                 !.stage_label = Some("Completed"),
                 !.hosts_discovered = Len(hosts),
                 !.live_hosts = CountUp(hosts),
                 !.open_ports_found = TotalPorts(hosts) ]

(* The row written by the `except asyncio.CancelledError` handler.         *)
CancelledRow(row, t) ==
    [ row EXCEPT !.status = CANCELLED, !.completed_at = Some(t) ]

(* The row written by the `except Exception` handler.                      *)
FailedRow(row, e, t) ==
    [ row EXCEPT !.status = FAILED,
                 !.completed_at = Some(t),
                 !.error_message = Some(Truncate(e, ErrMsgMax)) ]

(* The session after the pipeline returned: _persist_results, the          *)
(* completion fields, the log entry, commit.                               *)
WComplete(j) ==
    LET t == task[j] IN
    /\ t.pc = "complete"
    /\ \/ /\ Fault
          /\ SetTask(j, Failing(t, DbError))
          /\ UNCHANGED << scans, logs, inv, now >>
       \/ /\ NoFault
          /\ inv' = PersistHosts(inv, j, t.hosts, now)
          /\ scans' = [ scans EXCEPT ![j] = CompletedRow(@, t.hosts, now) ]
          /\ AddLog(j, 4, "info")
          /\ now' = now + 1
          /\ SetTask(j, [ t EXCEPT !.pc = "pub_completed", !.wrote = Append(@, COMPLETED) ])
    /\ UNCHANGED << queue, cancelSet, chan, rowState, devicesFile, polled, api, hist >>
    /\ UNCHANGED << hubVars, fwVars >>

(* scheduler.publish_progress(scan_completed)                              *)
WPubCompleted(j) ==
    LET t == task[j] IN
    /\ t.pc = "pub_completed"
    /\ \/ /\ Fault
          /\ SetTask(j, Failing(t, RedisError))
          /\ UNCHANGED chan
       \/ /\ NoFault
          /\ Publish(j, CompletedEvent(Len(t.hosts), TotalPorts(t.hosts)))
          /\ SetTask(j, [ t EXCEPT !.pc = "done" ])
    /\ UNCHANGED << queue, cancelSet, scans, rowState, logs, inv, devicesFile,
                    polled, api, now, hist >>
    /\ UNCHANGED << hubVars, fwVars >>

(* except asyncio.CancelledError: status, completed_at, warning log, commit*)
WCancelPersist(j) ==
    LET t == task[j] IN
    /\ t.pc = "cancel_persist"
    /\ \/ /\ Fault
          /\ SetTask(j, [ t EXCEPT !.pc = "crashed" ])
          /\ UNCHANGED << scans, logs, now >>
       \/ /\ NoFault
          /\ scans' = [ scans EXCEPT ![j] = CancelledRow(@, now) ]
          /\ AddLog(j, t.cur, "warning")
          /\ now' = now + 1
          /\ SetTask(j, [ t EXCEPT !.pc = "clear_cancel", !.wrote = Append(@, CANCELLED) ])
    /\ UNCHANGED << queue, cancelSet, chan, rowState, inv, devicesFile, polled,
                    api, hist >>
    /\ UNCHANGED << hubVars, fwVars >>

(* await scheduler.clear_cancel(scan_id)                                   *)
WClearCancel(j) ==
    LET t == task[j] IN
    /\ t.pc = "clear_cancel"
    /\ \/ /\ Fault
          /\ SetTask(j, [ t EXCEPT !.pc = "crashed" ])
          /\ UNCHANGED cancelSet
       \/ /\ NoFault
          /\ cancelSet' = SRem(cancelSet, j)
          /\ SetTask(j, [ t EXCEPT !.pc = "done" ])
    /\ UNCHANGED << queue, chan, scans, rowState, logs, inv, devicesFile,
                    polled, api, now, hist >>
    /\ UNCHANGED << hubVars, fwVars >>

(* except Exception: status, completed_at, error_message, error log,       *)
(* commit; an error of this session is logged and dropped.                 *)
WFailPersist(j) ==
    LET t == task[j] IN
    /\ t.pc = "fail_persist"
    /\ \/ /\ Fault
          /\ SetTask(j, [ t EXCEPT !.pc = "fail_publish" ])
          /\ UNCHANGED << scans, logs, now >>
       \/ /\ NoFault
          /\ scans' = IF Visible(j)
                      THEN [ scans EXCEPT ![j] = FailedRow(@, t.exc[1], now) ]
                      ELSE scans
          /\ IF Visible(j) THEN AddLog(j, t.cur, "error") ELSE UNCHANGED logs
          /\ now' = now + 1
          /\ SetTask(j, [ t EXCEPT !.pc = "fail_publish",
                                   !.failSaved = Visible(j),
                                   !.wrote = IF Visible(j) THEN Append(@, FAILED) ELSE @ ])
    /\ UNCHANGED << queue, cancelSet, chan, rowState, inv, devicesFile, polled,
                    api, hist >>
    /\ UNCHANGED << hubVars, fwVars >>

(* scheduler.publish_progress(scan_failed)                                 *)
WFailPublish(j) ==
    LET t == task[j] IN
    /\ t.pc = "fail_publish"
    /\ \/ /\ Fault
          /\ SetTask(j, [ t EXCEPT !.pc = "crashed" ])
          /\ UNCHANGED chan
       \/ /\ NoFault
          /\ Publish(j, FailedEvent(t.exc[1]))
          /\ SetTask(j, [ t EXCEPT !.pc = "done" ])
    /\ UNCHANGED << queue, cancelSet, scans, rowState, logs, inv, devicesFile,
                    polled, api, now, hist >>
    /\ UNCHANGED << hubVars, fwVars >>

(* ---------------------------- specification ---------------------------- *)
Next ==
    \/ \E j \in Tracked : CreateScan(j)
    \/ \E j \in Tracked : CreateCommit(j)
    \/ \E j \in Tracked : ApiCancelRead(j)
    \/ \E j \in Tracked : ApiCancelFlag(j)
    \/ \E j \in Tracked : ApiCancelCommit(j)
    \/ \E w \in Serving : WorkerDequeue(w)
    \/ \E j \in Tracked : WLoad(j)
    \/ \E j \in Tracked : WMarkRunning(j)
    \/ \E j \in Tracked : HookCheck(j)
    \/ \E j \in Tracked : HookWrite(j)
    \/ \E j \in Tracked : WComplete(j)
    \/ \E j \in Tracked : WPubCompleted(j)
    \/ \E j \in Tracked : WCancelPersist(j)
    \/ \E j \in Tracked : WClearCancel(j)
    \/ \E j \in Tracked : WFailPersist(j)
    \/ \E j \in Tracked : WFailPublish(j)

Spec == Init /\ [][Next]_vars

(* The scheduler's queue alone: producers push the ids of Jobs, the        *)
(* workers of Workers poll concurrently.                                   *)
EnqueueScan(j) ==
    /\ \A i \in 1..Len(hist.enq) : hist.enq[i] # j
    /\ queue' = RPush(queue, j)
    /\ hist' = [ hist EXCEPT !.enq = Append(@, j) ]
    /\ UNCHANGED << cancelSet, chan, scans, rowState, logs, inv, devicesFile,
                    task, polled, api, now, faults >>
    /\ UNCHANGED << hubVars, fwVars >>

NextQueue ==
    \/ \E j \in Jobs : EnqueueScan(j)
    \/ \E w \in Workers : WorkerDequeue(w)
    \/ \E w \in Workers : WorkerDequeueEmpty(w)

SpecQueue == Init /\ [][NextQueue]_vars

(* The device inventory alone: scan jobs run to completion one after or   *)
(* beside the other, each persisting what its pipeline returned, and the   *)
(* inventory is exported to and imported from devices.json.                *)
ScanLoad(j) ==
    /\ task[j].pc = "idle"
    /\ Cardinality({ k \in Jobs : task[k].pc # "idle" }) < MaxScans
    /\ SetTask(j, [ task[j] EXCEPT !.pc = "complete",
                                    !.existing = LoadExistingHosts(inv) ])
    /\ UNCHANGED << queue, cancelSet, chan, scans, rowState, logs, inv,
                    devicesFile, polled, api, now, faults, hist >>
    /\ UNCHANGED << hubVars, fwVars >>

(* The pipeline has returned; the persisting session selects the host row *)
(* of each host of the result.                                             *)
ScanSelect(j) ==
    /\ task[j].pc = "complete"
    /\ \E ip \in IPs : \E L \in RunFullPipeline({ ip }, task[j].existing) :
          SetTask(j, [ task[j] EXCEPT !.pc = "flush", !.hosts = L,
                                      !.known = SelectedHosts(inv, L) ])
    /\ UNCHANGED << queue, cancelSet, chan, scans, rowState, logs, inv,
                    devicesFile, polled, api, now, faults, hist >>
    /\ UNCHANGED << hubVars, fwVars >>

(* The session flushes and commits, or an INSERT hits the primary key and  *)
(* the session is rolled back with IntegrityError.                         *)
ScanPersist(j) ==
    /\ task[j].pc = "flush"
    /\ IF KeyConflict(inv, task[j].known, task[j].hosts)
       THEN /\ SetTask(j, [ task[j] EXCEPT !.pc = "done", !.exc = Some(DbError),
                                            !.raised = TRUE ])
            /\ UNCHANGED << inv, now >>
       ELSE /\ inv' = FlushHosts(inv, task[j].known, j, task[j].hosts, now)
            /\ SetTask(j, [ task[j] EXCEPT !.pc = "done",
                                            !.wrote = << COMPLETED >> ])
            /\ now' = now + 1
    /\ UNCHANGED << queue, cancelSet, chan, scans, rowState, logs, devicesFile,
                    polled, api, faults, hist >>
    /\ UNCHANGED << hubVars, fwVars >>

(* export_devices                                                          *)
ExportDevices ==
    /\ devicesFile' = Some(ExportAll(inv))
    /\ UNCHANGED << queue, cancelSet, chan, scans, rowState, logs, inv, task,
                    polled, api, now, faults, hist >>
    /\ UNCHANGED << hubVars, fwVars >>

(* import_devices: 404 when devices.json does not exist.                   *)
ImportDevices ==
    /\ devicesFile # None
    /\ inv' = ImportAll(inv, devicesFile[1])
    /\ UNCHANGED << queue, cancelSet, chan, scans, rowState, logs, devicesFile,
                    task, polled, api, now, faults, hist >>
    /\ UNCHANGED << hubVars, fwVars >>

NextInv ==
    \/ \E j \in Jobs : ScanLoad(j)
    \/ \E j \in Jobs : ScanSelect(j)
    \/ \E j \in Jobs : ScanPersist(j)
    \/ ExportDevices
    \/ ImportDevices

SpecInv == Init /\ [][NextInv]_vars

(* =============================== claims ================================ *)
Last(seq) == seq[Len(seq)]
CountType(msgs, ty) == Cardinality({ i \in 1..Len(msgs) : msgs[i].type = ty })
TerminalEvents == { "scan_completed", "scan_failed", "scan_cancelled" }
TerminalPositions(msgs) == { i \in 1..Len(msgs) : msgs[i].type \in TerminalEvents }
HasLevel(entries, level) == \E i \in 1..Len(entries) : entries[i].level = level
WorkerTerminal(t) == \E i \in 1..Len(t.wrote) : t.wrote[i] \in Terminal

StatusRank(st) == CASE st = PENDING -> 0 [] st = RUNNING -> 1 [] OTHER -> 2

(* C1: a job's persisted status only moves forward along                   *)
(* pending -> running -> {completed, failed, cancelled}: every change      *)
(* of status raises its rank and none leaves a terminal status, under      *)
(* every interleaving of cancel_scan with _process_scan and every failed   *)
(* datastore or publish call.                                              *)
C1_StatusMonotone ==
    [][ \A j \in Jobs :
          scans'[j].status # scans[j].status
          => /\ scans[j].status \notin Terminal
             /\ StatusRank(scans'[j].status) > StatusRank(scans[j].status) ]_vars

(* C2: when cancel_scan has flagged a job it saw running and the hook      *)
(* has checked the flag afterwards, then, no datastore or publish call     *)
(* having failed, the finished job is cancelled (the worker wrote no       *)
(* completed or failed status), completed_at is set and a warning-level    *)
(* scan-log entry exists.                                                  *)
C2_CancelWhileRunning ==
    \A j \in Jobs :
        (task[j].hookAfterCancel /\ Finished(j) /\ faults = 0)
        => /\ scans[j].status = CANCELLED
           /\ Last(task[j].wrote) = CANCELLED
           /\ COMPLETED \notin { task[j].wrote[i] : i \in 1..Len(task[j].wrote) }
           /\ FAILED \notin { task[j].wrote[i] : i \in 1..Len(task[j].wrote) }
           /\ IsSet(scans[j].completed_at)
           /\ HasLevel(logs[j], "warning")
C2_Witness ==
    \E j \in Jobs :
        /\ task[j].hookAfterCancel /\ Finished(j) /\ faults = 0
        /\ api[j].flaggedRunning
        /\ scans[j].status = CANCELLED
        /\ task[j].cur >= 3

(* C3: once the worker has finished a job that cancel_scan flagged while   *)
(* the job was not yet finished, the cancel set does not hold its id       *)
(* (no datastore or publish call having failed).                           *)
C3_CancelFlagCleared ==
    \A j \in Jobs :
        (task[j].pc = "done" /\ api[j].flaggedActive /\ api[j].pc = "idle" /\ faults = 0)
        => ~SIsMember(cancelSet, j)

(* C4: a finished job for which the worker persisted a terminal status     *)
(* has exactly one terminal event on its channel, and that event is the    *)
(* channel's last message (no datastore or publish call having failed).    *)
C4_OneTerminalEvent ==
    \A j \in Jobs :
        (task[j].pc = "done" /\ WorkerTerminal(task[j]) /\ faults = 0)
        => /\ Cardinality(TerminalPositions(chan[j])) = 1
           /\ TerminalPositions(chan[j]) = { Len(chan[j]) }

FrozenFields(row) ==
    << row.current_stage, row.stage_label, row.hosts_discovered, row.live_hosts,
       row.open_ports_found, row.started_at, row.completed_at, row.error_message >>

(* C5: once a job's status is terminal, no step changes its current_stage, *)
(* stage_label, hosts_discovered, live_hosts, open_ports_found,            *)
(* started_at, completed_at or error_message (steps taken while no         *)
(* datastore or publish call has failed).                                  *)
C5_TerminalFrozen ==
    [][ \A j \in Jobs :
          (scans[j].status \in Terminal /\ faults' = 0)
          => FrozenFields(scans'[j]) = FrozenFields(scans[j]) ]_vars

(* C6: a job the worker loaded in status cancelled is finished at once:    *)
(* the worker never writes running, started_at stays unset, no hook is     *)
(* invoked (no stage, log entry or event) and no tool is started.          *)
C6_CancelledBeforeLoad ==
    \A j \in Jobs :
        task[j].loaded = Some(CANCELLED)
        => /\ task[j].pc = "done"
           /\ task[j].wrote = << >>
           /\ task[j].tools = {}
           /\ task[j].cur = 0
           /\ scans[j].status = CANCELLED
           /\ scans[j].started_at = None
           /\ logs[j] = << >>
           /\ chan[j] = << >>
C6_Witness ==
    \E j \in Jobs :
        /\ task[j].loaded = Some(CANCELLED)
        /\ task[j].pc = "done"
        /\ api[j].committed

(* C8: when stage 1 yields no hosts, no tool of stages 2-4 is started and  *)
(* the pipeline's host list is empty; and when nothing was raised in the   *)
(* job, the worker marked it completed with hosts_discovered = 0 and       *)
(* open_ports_found = 0 and published exactly one scan_completed event     *)
(* and no scan_failed event.                                               *)
C8_NoHostsCompletes ==
    \A j \in Jobs :
        task[j].s1empty
        => /\ task[j].tools = { 1 }
           /\ task[j].hosts = << >>
           /\ task[j].cur <= 1
           /\ (task[j].pc = "done" /\ ~task[j].raised)
              => /\ task[j].wrote = << RUNNING, COMPLETED >>
                 /\ scans[j].hosts_discovered = 0
                 /\ scans[j].open_ports_found = 0
                 /\ IsSet(scans[j].completed_at)
                 /\ CountType(chan[j], "scan_completed") = 1
                 /\ CountType(chan[j], "scan_failed") = 0
                 /\ Last(chan[j]) = CompletedEvent(0, 0)
C8_Witness ==
    \E j \in Jobs :
        /\ task[j].s1empty /\ task[j].pc = "done" /\ ~task[j].raised
        /\ scans[j].status = COMPLETED

DeqIds == [ i \in 1..Len(hist.deq) |-> hist.deq[i][2] ]

(* C7: ids leave soc:scan_queue in the order they were pushed, so the      *)
(* ids returned so far followed by the queue are the ids pushed so far;    *)
(* no id is returned twice, to one worker or to two; and a poll of the     *)
(* empty queue returns None and leaves the queue empty.                    *)
C7_FifoOnce ==
    /\ [](/\ hist.enq = DeqIds \o queue
          /\ \A i, k \in 1..Len(hist.deq) : i # k => hist.deq[i][2] # hist.deq[k][2]
          /\ \A w \in Workers : IsSet(polled[w]) =>
                \E i \in 1..Len(hist.deq) : hist.deq[i] = << w, polled[w][1] >>)
    /\ [][ (queue = << >> /\ hist' = hist)
           => /\ queue' = << >>
              /\ \A w \in Workers : polled'[w] # polled[w] => polled'[w] = None ]_vars
C7_Witness ==
    /\ Len(hist.deq) >= 2
    /\ hist.deq[1][1] # hist.deq[2][1]
    /\ queue = << >>
    /\ \E i \in 1..Len(hist.deq) : polled[hist.deq[i][1]] = None

OpenRows(rows) == { i \in 1..Len(rows) : rows[i].state = "open" }

(* C10: in every state of the inventory, each host's open_port_count is    *)
(* the number of its port rows whose state is "open".                      *)
C10_OpenPortCount ==
    \A mac \in DOMAIN inv.hosts :
        inv.hosts[mac].open_port_count = Cardinality(OpenRows(PortRowsOf(inv, mac)))

(* ------------------- the same job run a second time -------------------- *)
(* _process_scan from the snapshot to the commit of the results, with the  *)
(* tools' answers recorded.                                                *)
FirstRun(j) ==
    /\ task[j].pc = "idle"
    /\ \A k \in Jobs : task[k].pc = "idle"
    /\ \E report \in ToolReports :
          LET existing == LoadExistingHosts(inv)
              result == RunWithReport(existing, report)
          IN  /\ inv' = PersistHosts(inv, j, result, now)
              /\ SetTask(j, [ task[j] EXCEPT !.pc = "ran", !.hosts = result,
                                              !.existing = existing,
                                              !.report = Some(report) ])
    /\ now' = now + 1
    /\ UNCHANGED << queue, cancelSet, chan, scans, rowState, logs, devicesFile,
                    polled, api, faults, hist >>
    /\ UNCHANGED << hubVars, fwVars >>

(* The same job again: the snapshot is taken from the inventory the first  *)
(* run left and the tools answer as before.                                *)
SecondRun(j) ==
    /\ task[j].pc = "ran"
    /\ LET existing == LoadExistingHosts(inv)
           result == RunWithReport(existing, task[j].report[1])
       IN  /\ inv' = PersistHosts(inv, j, result, now)
           /\ SetTask(j, [ task[j] EXCEPT !.pc = "done", !.hosts = result,
                                           !.existing = existing ])
    /\ now' = now + 1
    /\ UNCHANGED << queue, cancelSet, chan, scans, rowState, logs, devicesFile,
                    polled, api, faults, hist >>
    /\ UNCHANGED << hubVars, fwVars >>

(* The job run again later, when the tools may answer differently.         *)
LaterRun(j) ==
    /\ task[j].pc = "ran"
    /\ \E report \in ToolReports :
          LET existing == LoadExistingHosts(inv)
              result == RunWithReport(existing, report)
          IN  /\ inv' = PersistHosts(inv, j, result, now)
              /\ SetTask(j, [ task[j] EXCEPT !.pc = "later", !.hosts = result,
                                              !.existing = existing ])
    /\ now' = now + 1
    /\ UNCHANGED << queue, cancelSet, chan, scans, rowState, logs, devicesFile,
                    polled, api, faults, hist >>
    /\ UNCHANGED << hubVars, fwVars >>

NextRerun ==
    \/ \E j \in Jobs : FirstRun(j)
    \/ \E j \in Jobs : SecondRun(j)
    \/ \E j \in Jobs : LaterRun(j)

SpecRerun == Init /\ [][NextRerun]_vars

(* ---------------------------- broadcast hub ---------------------------- *)
(* json.dumps(data) and the text a websocket receives.                     *)
JsonDumps(data) == [ json |-> data ]
Pong == JsonDumps([ type |-> "pong" ])

Registered(ws) ==
    \/ \E j \in DOMAIN connections :
          \E i \in 1..Len(connections[j]) : connections[j][i] = ws
    \/ \E i \in 1..Len(globalSinks) : globalSinks[i] = ws
    \/ \E f \in DOMAIN firmwareConnections :
          \E i \in 1..Len(firmwareConnections[f]) : firmwareConnections[f][i] = ws
Watching(ws, j) ==
    \/ /\ j \in DOMAIN connections
       /\ \E i \in 1..Len(connections[j]) : connections[j][i] = ws
    \/ \E i \in 1..Len(globalSinks) : globalSinks[i] = ws
Fresh(ws) == ~Registered(ws) /\ sent[ws] = << >> /\ owed[ws] = << >> /\ pings[ws] = 0

(* ConnectionManager.broadcast_scan: the texts each websocket has been     *)
(* sent once the payload went to the job's sinks and the global sinks. No  *)
(* code of the API process calls it.                                       *)
BroadcastScan(j, data) ==
    [ ws \in Sinks |->
        IF Watching(ws, j) THEN Append(sent[ws], JsonDumps(data)) ELSE sent[ws] ]

(* lifespan: scheduler.start() in the API process sets _running and        *)
(* starts no task.                                                         *)
Lifespan ==
    /\ ~started
    /\ started' = TRUE
    /\ UNCHANGED << scanVars, connections, globalSinks, sent, pings, owed, firmwareConnections, bcast, loop, fwVars >>

(* scan_websocket: manager.connect(websocket, sid)                         *)
Connect(ws, j) ==
    /\ started
    /\ Fresh(ws)
    /\ connections' =
          IF j \in DOMAIN connections
          THEN [ connections EXCEPT ![j] = Append(@, ws) ]
          ELSE (j :> << ws >>) @@ connections
    /\ UNCHANGED << scanVars, globalSinks, sent, pings, owed, started, firmwareConnections, bcast, loop, fwVars >>

(* live_websocket: manager.connect(websocket)                              *)
ConnectGlobal(ws) ==
    /\ started
    /\ Fresh(ws)
    /\ globalSinks' = Append(globalSinks, ws)
    /\ UNCHANGED << scanVars, connections, sent, pings, owed, started, firmwareConnections, bcast, loop, fwVars >>

(* WebSocketDisconnect in scan_websocket: manager.disconnect(websocket, sid)*)
Disconnect(ws, j) ==
    /\ j \in DOMAIN connections
    /\ \E i \in 1..Len(connections[j]) : connections[j][i] = ws
    /\ LET rest == SelectSeq(connections[j], LAMBDA c : c # ws)
       IN  connections' =
             IF rest = << >>
             THEN [ k \in DOMAIN connections \ { j } |-> connections[k] ]
             ELSE [ connections EXCEPT ![j] = rest ]
    /\ pings' = [ pings EXCEPT ![ws] = 0 ]
    /\ UNCHANGED << scanVars, globalSinks, sent, owed, started, firmwareConnections, bcast, loop, fwVars >>

(* WebSocketDisconnect in live_websocket: manager.disconnect(websocket)    *)
DisconnectGlobal(ws) ==
    /\ \E i \in 1..Len(globalSinks) : globalSinks[i] = ws
    /\ globalSinks' = SelectSeq(globalSinks, LAMBDA c : c # ws)
    /\ pings' = [ pings EXCEPT ![ws] = 0 ]
    /\ UNCHANGED << scanVars, connections, sent, owed, started, firmwareConnections, bcast, loop, fwVars >>

(* The client sends "ping" on its websocket.                               *)
ClientPing(ws) ==
    /\ Registered(ws)
    /\ pings[ws] < MaxPings
    /\ Len(sent[ws]) < MaxPings
    /\ pings' = [ pings EXCEPT ![ws] = @ + 1 ]
    /\ UNCHANGED << scanVars, connections, globalSinks, sent, owed, started, firmwareConnections, bcast, loop, fwVars >>

(* scan_websocket / live_websocket: receive_text() returned "ping"; the    *)
(* handler sends the pong.                                                 *)
HubPong(ws) ==
    /\ Registered(ws)
    /\ pings[ws] > 0
    /\ pings' = [ pings EXCEPT ![ws] = @ - 1 ]
    /\ sent' = [ sent EXCEPT ![ws] = Append(@, Pong) ]
    /\ UNCHANGED << scanVars, connections, globalSinks, owed, started, firmwareConnections, bcast, loop, fwVars >>

(* The worker's scheduler.publish_progress: r.publish on soc:scan:<j>. The *)
(* k-th message of a job carries stage k.                                  *)
Published == SumLen([ j \in 1..NumJobs |-> chan[j] ])
PublishProgress(j) ==
    /\ Published < MaxMsgs
    /\ Publish(j, ProgressEvent(Len(chan[j]) + 1))
    /\ owed' = [ ws \in Sinks |->
                   IF Watching(ws, j)
                   THEN Append(owed[ws], JsonDumps(ProgressEvent(Len(chan[j]) + 1)))
                   ELSE owed[ws] ]
    /\ UNCHANGED << queue, cancelSet, scans, rowState, logs, inv, devicesFile,
                    task, polled, api, now, faults, hist >>
    /\ UNCHANGED << connections, globalSinks, sent, pings, started, firmwareConnections, bcast, loop, fwVars >>

NextHub ==
    \/ Lifespan
    \/ \E ws \in Sinks : \E j \in Jobs : Connect(ws, j)
    \/ \E ws \in Sinks : ConnectGlobal(ws)
    \/ \E ws \in Sinks : \E j \in Jobs : Disconnect(ws, j)
    \/ \E ws \in Sinks : DisconnectGlobal(ws)
    \/ \E ws \in Sinks : ClientPing(ws)
    \/ \E ws \in Sinks : HubPong(ws)
    \/ \E j \in Jobs : PublishProgress(j)

(* The API process's event loop runs every handler that is ready: the      *)
(* lifespan startup and the answer to a received ping.                     *)
SpecHub ==
    /\ Init /\ [][NextHub]_vars
    /\ WF_vars(Lifespan)
    /\ \A ws \in Sinks : WF_vars(HubPong(ws))

(* -------------------------- firmware analyses -------------------------- *)
DOWNLOADING == "downloading"
DOWNLOADED == "downloaded"
EMBA_QUEUED == "emba_queued"
EMBA_RUNNING == "emba_running"
EMBA_DONE == "emba_done"
TRIAGING == "triaging"
FirmwareStatus ==
    { PENDING, DOWNLOADING, DOWNLOADED, EMBA_QUEUED, EMBA_RUNNING, EMBA_DONE,
      TRIAGING, COMPLETED, FAILED, CANCELLED }

(* FirmwareAnalysis(host_mac=..., fw_url=..., status=PENDING)              *)
NewAnalysis(mac, url) ==
    [ host_mac |-> mac, fw_url |-> url, status |-> PENDING, fw_path |-> None,
      emba_log_dir |-> None, risk_report |-> None, risk_score |-> None,
      findings_count |-> None, critical_count |-> None, high_count |-> None,
      error_message |-> None, completed_at |-> None ]

(* The statuses start_firmware_analysis and start_batch_firmware_analysis  *)
(* look for before they create an analysis for a host.                     *)
InProgressStatuses == { PENDING, DOWNLOADING, DOWNLOADED, EMBA_RUNNING, TRIAGING }
RunningFor(mac) ==
    { f \in FwIds : /\ analyses[f] # None
                    /\ analyses[f][1].host_mac = mac
                    /\ analyses[f][1].status \in InProgressStatuses }

FreeIds == { f \in FwIds : analyses[f] = None }
RECURSIVE SetToSeq(_)
SetToSeq(S) ==
    IF S = {} THEN << >>
    ELSE LET x == CHOOSE y \in S : \A z \in S : y <= z
         IN  << x >> \o SetToSeq(S \ { x })
(* The hosts table in the order of its key.                                *)
RECURSIVE MacsInOrder(_)
MacsInOrder(macs) ==
    IF macs = {} THEN << >>
    ELSE LET ips == { ip \in IPs : WireMac(ip) \in macs }
             first == CHOOSE ip \in ips : \A o \in ips : IpIndex(ip) <= IpIndex(o)
         IN  << WireMac(first) >> \o MacsInOrder(macs \ { WireMac(first) })

(* A scan has persisted a host that answered with its MAC.                 *)
HostDiscovered(ip) ==
    /\ WireMac(ip) \notin DOMAIN inv.hosts
    /\ inv' = PersistHosts(inv, 1,
                 << [ DiscoveredHost(ip) EXCEPT !.mac = Some(WireMac(ip)) ] >>, now)
    /\ UNCHANGED << queue, cancelSet, chan, scans, rowState, logs, devicesFile,
                    task, polled, api, now, faults, hist >>
    /\ UNCHANGED << hubVars, fwVars >>

SetReq(r, v) == fwReq' = [ fwReq EXCEPT ![r] = v ]

(* The scheduler's operations on soc:firmware_queue and                    *)
(* soc:firmware_cancel, analogous to those for scans.                      *)
EnqueueFirmware(q, id) == RPush(q, id)
CancelFirmware(set, id) == SAdd(set, id)
IsCancelledFirmware(set, id) == SIsMember(set, id)
ClearCancelFirmware(set, id) == SRem(set, id)

(* start_firmware_analysis up to the check for an analysis in progress;    *)
(* the request carries fw_url. A 404 or 409 answer changes nothing.        *)
StartCheck(r, mac) ==
    /\ fwReq[r].pc = "idle"
    /\ mac \in DOMAIN inv.hosts
    /\ RunningFor(mac) = {}
    /\ FreeIds # {}
    /\ SetReq(r, [ IdleReq EXCEPT !.pc = "checked", !.handler = "single",
                                  !.hosts = << mac >> ])
    /\ UNCHANGED << scanVars, hubVars, analyses, fwQueue, fwCancel, fwTask >>

(* start_batch_firmware_analysis up to the end of its loop: the hosts it   *)
(* selects (those listed, or all that are eligible) and, of these, the     *)
(* ones without an analysis in progress.                                   *)
Eligible(mac) ==
    /\ inv.hosts[mac].firmware_url # None
    /\ inv.hosts[mac].firmware_status \in { None, Some(FAILED), Some(CANCELLED) }
BatchSelect(listed) ==
    IF listed # {}
    THEN { mac \in DOMAIN inv.hosts : mac \in listed /\ inv.hosts[mac].firmware_url # None }
    ELSE { mac \in DOMAIN inv.hosts : inv.hosts[mac].firmware_url # None /\ Eligible(mac) }
BatchCheck(r, listed) ==
    /\ fwReq[r].pc = "idle"
    /\ BatchSelect(listed) # {}
    /\ LET create == { mac \in BatchSelect(listed) : RunningFor(mac) = {} }
       IN  /\ Cardinality(FreeIds) >= Cardinality(create)
           /\ SetReq(r, [ IdleReq EXCEPT !.pc = "checked", !.handler = "batch",
                                         !.hosts = MacsInOrder(create) ])
    /\ UNCHANGED << scanVars, hubVars, analyses, fwQueue, fwCancel, fwTask >>

(* db.add(analysis) for every host decided on, host.firmware_status =      *)
(* "pending", flush and commit.                                            *)
StartCommit(r) ==
    LET q == fwReq[r]
        n == Len(q.hosts)
        ids == SubSeq(SetToSeq(FreeIds), 1, n)
    IN
    /\ q.pc = "checked"
    /\ Cardinality(FreeIds) >= n
    /\ analyses' = [ f \in FwIds |->
                       IF \E i \in 1..n : ids[i] = f
                       THEN LET mac == q.hosts[CHOOSE i \in 1..n : ids[i] = f]
                            IN  Some(NewAnalysis(mac,
                                  IF q.handler = "single" THEN "url"
                                  ELSE inv.hosts[mac].firmware_url[1]))
                       ELSE analyses[f] ]
    /\ inv' = [ inv EXCEPT !.hosts =
                  [ mac \in DOMAIN inv.hosts |->
                      IF \E i \in 1..n : q.hosts[i] = mac
                      THEN [ inv.hosts[mac] EXCEPT
                               !.firmware_url = IF q.handler = "single"
                                                THEN Some("url") ELSE @,
                               !.firmware_status = Some(PENDING) ]
                      ELSE inv.hosts[mac] ] ]
    /\ SetReq(r, IF n = 0 THEN IdleReq ELSE [ q EXCEPT !.pc = "committed", !.ids = ids ])
    /\ UNCHANGED << queue, cancelSet, chan, scans, rowState, logs, devicesFile,
                    task, polled, api, now, faults, hist >>
    /\ UNCHANGED << hubVars, fwQueue, fwCancel, fwTask >>

(* scheduler.enqueue_firmware(id) for the next analysis created.           *)
StartEnqueue(r) ==
    LET q == fwReq[r] IN
    /\ q.pc = "committed"
    /\ fwQueue' = EnqueueFirmware(fwQueue, Head(q.ids))
    /\ SetReq(r, IF Tail(q.ids) = << >> THEN IdleReq ELSE [ q EXCEPT !.ids = Tail(@) ])
    /\ UNCHANGED << scanVars, hubVars, analyses, fwCancel, fwTask >>

(* cancel_firmware_analysis: the row is read, the id is added to the       *)
(* cancel set, the status is written and committed.                        *)
FwCancellable(st) == st \notin { COMPLETED, CANCELLED }
CancelRead(r, f) ==
    /\ fwReq[r].pc = "idle"
    /\ analyses[f] # None
    /\ FwCancellable(analyses[f][1].status)
    /\ SetReq(r, [ IdleReq EXCEPT !.pc = "cancel_read", !.handler = "cancel",
                                  !.ids = << f >> ])
    /\ UNCHANGED << scanVars, hubVars, analyses, fwQueue, fwCancel, fwTask >>
CancelFlag(r) ==
    /\ fwReq[r].pc = "cancel_read"
    /\ fwCancel' = CancelFirmware(fwCancel, fwReq[r].ids[1])
    /\ SetReq(r, [ fwReq[r] EXCEPT !.pc = "cancel_flagged" ])
    /\ UNCHANGED << scanVars, hubVars, analyses, fwQueue, fwTask >>
CancelCommit(r) ==
    /\ fwReq[r].pc = "cancel_flagged"
    /\ analyses' = [ analyses EXCEPT ![fwReq[r].ids[1]] =
                       Some([ @[1] EXCEPT !.status = CANCELLED ]) ]
    /\ SetReq(r, IdleReq)
    /\ UNCHANGED << scanVars, hubVars, fwQueue, fwCancel, fwTask >>

(* ------------------------------ ai_triage ------------------------------ *)
(* A line of the analyzer's log tree: the number of characters left after  *)
(* strip() and the keyword it holds, if any.                               *)
SIGNALS == { "CVE-", "password", "telnet" }
MinLineLen == 10
MaxLines == 120
ShortLine == [ chars |-> 8, word |-> "CVE-" ]
NoiseLine == [ chars |-> 40, word |-> "none" ]
HitLine(w) == [ chars |-> 40, word |-> w ]
(* The log trees the analyzer may leave.                                   *)
EmbaLogs ==
    { {}, { ShortLine, NoiseLine }, { HitLine("CVE-"), HitLine("telnet"), NoiseLine } }

(* Faulty variant: every line of the tree counts as a finding.             *)
EveryLine(tree) == tree
(* extract_findings: the distinct lines of at least ten characters that    *)
(* hold a signal keyword; at most max_lines of them are returned.          *)
ExtractFindings(tree) ==
    { l \in tree : l.chars >= MinLineLen /\ l.word \in SIGNALS }
FindingsCount(tree) == Min(Cardinality(ExtractFindings(tree)), MaxLines)

(* What the LLM endpoint answers to the POST: an HTTP fault, or a reply    *)
(* whose "response" is blank or is a report. A report is described by the  *)
(* numbers its text shows to the three score patterns, in their order, and *)
(* by how often it says "critical" and "high".                             *)
HttpFault == [ kind |-> "http", len |-> 120 ]
EmptyReply == [ kind |-> "runtime", len |-> 33 ]
Report(scores, critical, high) ==
    [ blank |-> FALSE, scores |-> scores, critical |-> critical, high |-> high ]
BlankReport == [ blank |-> TRUE, scores |-> << >>, critical |-> 0, high |-> 0 ]
NoFindingsReport == [ blank |-> FALSE, canned |-> TRUE ]
OllamaReplies ==
    { [ fault |-> Some(HttpFault), response |-> BlankReport ],
      [ fault |-> None, response |-> BlankReport ],
      [ fault |-> None, response |-> Report(<< 12, 7 >>, 2, 1) ] }

(* _parse_risk_score: the first number found by a pattern that lies in     *)
(* 0..10, else None.                                                       *)
ParseRiskScore(report) ==
    LET ok == { i \in 1..Len(report.scores) : report.scores[i] \in 0..10 }
    IN  IF ok = {} THEN None
        ELSE Some(report.scores[CHOOSE i \in ok : \A k \in ok : i <= k])

(* run_triage(emba_log_dir, ...): raised is the exception it raises, out   *)
(* the tuple it returns, posts the requests it sent to the LLM endpoint    *)
(* and file what it wrote to ai_triage.md.                                 *)
TriageResult(raised, out, posts, file) ==
    [ raised |-> raised, out |-> out, posts |-> posts, file |-> file ]
RunTriage(tree, reply) ==
    IF ExtractFindings(tree) = {}
    THEN TriageResult(None, Some(<< NoFindingsReport, None, 0, 0, 0 >>), 0, None)
    ELSE IF reply.fault # None
    THEN TriageResult(reply.fault, None, 1, None)
    ELSE IF reply.response.blank
    THEN TriageResult(Some(EmptyReply), None, 1, None)
    ELSE TriageResult(None,
                      Some(<< reply.response, ParseRiskScore(reply.response),
                              FindingsCount(tree), reply.response.critical,
                              reply.response.high >>),
                      1, Some(reply.response))

(* --------------------------- firmware pipeline ------------------------- *)
(* _update_analysis / _update_host_firmware: setattr for every keyword.    *)
UpdateRow(row, kwargs) ==
    [ k \in DOMAIN row |-> IF k \in DOMAIN kwargs THEN kwargs[k] ELSE row[k] ]
UpdateAnalysis(f, kwargs, hostKwargs) ==
    /\ analyses' = [ analyses EXCEPT ![f] = Some(UpdateRow(@[1], kwargs)) ]
    /\ LET mac == analyses[f][1].host_mac
       IN  inv' = [ inv EXCEPT !.hosts[mac] = UpdateRow(@, hostKwargs) ]
SetFwTask(f, pc) == fwTask' = [ fwTask EXCEPT ![f].pc = pc ]
FwRaise(f, e) == fwTask' = [ fwTask EXCEPT ![f].pc = "fail", ![f].exc = Some(e) ]

(* run_firmware_pipeline is called for an analysis: the row is loaded, and *)
(* unless it is cancelled the analysis is marked as downloading.           *)
FwLoad(f) ==
    /\ fwTask[f].pc = "idle"
    /\ Cardinality({ g \in FwIds : fwTask[g].pc # "idle" }) < MaxPipelines
    /\ analyses[f] # None
    /\ IF analyses[f][1].status = CANCELLED
       THEN SetFwTask(f, "done") /\ UNCHANGED analyses
       ELSE /\ analyses' = [ analyses EXCEPT ![f] =
                               Some([ @[1] EXCEPT !.status = DOWNLOADING ]) ]
            /\ fwTask' = [ fwTask EXCEPT ![f].pc = "url",
                                         ![f].wrote = << DOWNLOADING >> ]
    /\ UNCHANGED << scanVars, hubVars, fwQueue, fwCancel, fwReq >>

(* if not fw_url: raise ValueError(...)                                    *)
NoUrl == [ kind |-> "value", len |-> 60 ]
FwUrl(f) ==
    /\ fwTask[f].pc = "url"
    /\ IF analyses[f][1].fw_url = ""
       THEN FwRaise(f, NoUrl)
       ELSE SetFwTask(f, "download")
    /\ UNCHANGED << scanVars, hubVars, analyses, fwQueue, fwCancel, fwReq >>

(* download_firmware and run_emba: the adapter returns or raises. run_emba *)
(* raises RuntimeError on a non-zero exit and TimeoutError (whose text is  *)
(* empty) after the timeout.                                               *)
ToolPcs == { "download", "emba" }
EmbaExit == [ kind |-> "runtime", len |-> 530 ]
EmbaTimeout == [ kind |-> "timeout", len |-> 0 ]
FwErrors(pc) == IF pc = "download" THEN ToolErrors ELSE { EmbaExit, EmbaTimeout }
FwTool(f) ==
    LET t == fwTask[f]
        called == [ t EXCEPT !.tools = Append(@, t.pc) ]
    IN
    /\ t.pc \in ToolPcs
    /\ \/ /\ NoFault
          /\ IF t.pc = "download"
             THEN fwTask' = [ fwTask EXCEPT ![f] = [ called EXCEPT !.pc = "persist_a" ] ]
             ELSE \E tree \in EmbaLogs :
                     fwTask' = [ fwTask EXCEPT ![f] =
                                   [ called EXCEPT !.pc = "persist_b", !.logs = tree ] ]
       \/ /\ Fault
          /\ \E e \in FwErrors(t.pc) :
                fwTask' = [ fwTask EXCEPT ![f] =
                              [ called EXCEPT !.pc = "fail", !.exc = Some(e) ] ]
    /\ UNCHANGED << queue, cancelSet, chan, scans, rowState, logs, inv, devicesFile,
                    task, polled, api, now, hist >>
    /\ UNCHANGED << hubVars, analyses, fwQueue, fwCancel, fwReq >>

(* run_triage on the analyzer's log tree.                                  *)
FwTriage(f) ==
    LET t == fwTask[f]
        called == [ t EXCEPT !.tools = Append(@, "triage") ]
    IN
    /\ t.pc = "triage"
    /\ \E reply \in OllamaReplies :
          LET r == RunTriage(t.logs, reply) IN
          /\ IF r.raised # None THEN Fault ELSE NoFault
          /\ fwTask' = [ fwTask EXCEPT ![f] =
                [ called EXCEPT !.pc = IF r.raised # None THEN "fail" ELSE "persist_c",
                                 !.exc = r.raised, !.out = r.out,
                                 !.posts = r.posts, !.file = r.file ] ]
    /\ UNCHANGED << queue, cancelSet, chan, scans, rowState, logs, inv, devicesFile,
                    task, polled, api, now, hist >>
    /\ UNCHANGED << hubVars, analyses, fwQueue, fwCancel, fwReq >>

(* The sessions that persist a stage's outputs and status, on the analysis *)
(* and on its host.                                                        *)
PersistPcs == { "persist_a", "mark_b", "persist_b", "mark_c", "persist_c" }
(* Faulty variant: the analyzer's states are left out.                     *)
StatusSkipping(pc) ==
    CASE pc = "persist_a" -> DOWNLOADED [] pc = "mark_b" -> DOWNLOADED
      [] pc = "persist_b" -> DOWNLOADED [] pc = "mark_c" -> TRIAGING
      [] pc = "persist_c" -> COMPLETED
StatusAt(pc) ==
    CASE pc = "persist_a" -> DOWNLOADED [] pc = "mark_b" -> EMBA_RUNNING
      [] pc = "persist_b" -> EMBA_DONE [] pc = "mark_c" -> TRIAGING
      [] pc = "persist_c" -> COMPLETED
AfterPersist(pc) ==
    CASE pc = "persist_a" -> "check_a" [] pc = "mark_b" -> "emba"
      [] pc = "persist_b" -> "check_b" [] pc = "mark_c" -> "triage"
      [] pc = "persist_c" -> "done"
AnalysisKwargs(t) ==
    LET st == [ status |-> StatusAt(t.pc) ] IN
    CASE t.pc = "persist_a" -> st @@ [ fw_path |-> Some("bin") ]
      [] t.pc = "persist_b" -> st @@ [ emba_log_dir |-> Some("logs") ]
      [] t.pc = "persist_c" ->
            st @@ [ risk_report |-> Some(t.out[1][1]), risk_score |-> t.out[1][2],
                    findings_count |-> Some(t.out[1][3]),
                    critical_count |-> Some(t.out[1][4]),
                    high_count |-> Some(t.out[1][5]), completed_at |-> Some(now) ]
      [] OTHER -> st
HostKwargs(t) ==
    LET st == [ firmware_status |-> Some(StatusAt(t.pc)) ] IN
    CASE t.pc = "persist_c" ->
            st @@ [ risk_report |-> Some(t.out[1][1]), risk_score |-> t.out[1][2] ]
      [] OTHER -> st
FwPersist(f) ==
    /\ fwTask[f].pc \in PersistPcs
    /\ UpdateAnalysis(f, AnalysisKwargs(fwTask[f]), HostKwargs(fwTask[f]))
    /\ fwTask' = [ fwTask EXCEPT ![f].pc = AfterPersist(fwTask[f].pc),
                                 ![f].wrote = Append(@, StatusAt(fwTask[f].pc)) ]
    /\ UNCHANGED << queue, cancelSet, chan, scans, rowState, logs, devicesFile,
                    task, polled, api, now, faults, hist >>
    /\ UNCHANGED << hubVars, fwQueue, fwCancel, fwReq >>

(* if await scheduler.is_cancelled_firmware(aid): raise CancelledError     *)
CheckPcs == { "check_a", "check_b" }
(* Faulty variant: the answer of the cancel set is not acted on.           *)
CheckIgnored(flagged, pc) == IF pc = "check_a" THEN "mark_b" ELSE "mark_c"
AfterCheck(flagged, pc) ==
    IF flagged THEN "cancel"
    ELSE IF pc = "check_a" THEN "mark_b" ELSE "mark_c"
FwCheck(f) ==
    LET flagged == IsCancelledFirmware(fwCancel, f) IN
    /\ fwTask[f].pc \in CheckPcs
    /\ fwTask' = [ fwTask EXCEPT ![f].pc = AfterCheck(flagged, fwTask[f].pc),
                                 ![f].flagged = flagged ]
    /\ UNCHANGED << scanVars, hubVars, analyses, fwQueue, fwCancel, fwReq >>

(* except CancelledError: status cancelled and completed_at, then          *)
(* clear_cancel_firmware.                                                  *)
FwCancelPersist(f) ==
    /\ fwTask[f].pc = "cancel"
    /\ UpdateAnalysis(f, [ status |-> CANCELLED, completed_at |-> Some(now) ],
                         [ firmware_status |-> Some(CANCELLED) ])
    /\ fwTask' = [ fwTask EXCEPT ![f].pc = "clear", ![f].wrote = Append(@, CANCELLED) ]
    /\ UNCHANGED << queue, cancelSet, chan, scans, rowState, logs, devicesFile,
                    task, polled, api, now, faults, hist >>
    /\ UNCHANGED << hubVars, fwQueue, fwCancel, fwReq >>
FwClearCancel(f) ==
    /\ fwTask[f].pc = "clear"
    /\ fwCancel' = ClearCancelFirmware(fwCancel, f)
    /\ SetFwTask(f, "done")
    /\ UNCHANGED << scanVars, hubVars, analyses, fwQueue, fwReq >>

(* except Exception as e: status failed, error_message = str(e)[:2000],    *)
(* completed_at.                                                           *)
FwErrMsgMax == 2000
FwErrorText(e, n) == [ kind |-> e.kind, len |-> Min(e.len, n) ]
FwFailPersist(f) ==
    /\ fwTask[f].pc = "fail"
    /\ UpdateAnalysis(f, [ status |-> FAILED,
                           error_message |-> Some(FwErrorText(fwTask[f].exc[1], FwErrMsgMax)),
                           completed_at |-> Some(now) ],
                         [ firmware_status |-> Some(FAILED) ])
    /\ fwTask' = [ fwTask EXCEPT ![f].pc = "done", ![f].wrote = Append(@, FAILED) ]
    /\ UNCHANGED << queue, cancelSet, chan, scans, rowState, logs, devicesFile,
                    task, polled, api, now, faults, hist >>
    /\ UNCHANGED << hubVars, fwQueue, fwCancel, fwReq >>

(* update_host with a body that sets firmware_url to the empty text.       *)
ClearFirmwareUrl(mac) ==
    /\ mac \in DOMAIN inv.hosts
    /\ inv.hosts[mac].firmware_url \notin { None, Some("") }
    /\ inv' = [ inv EXCEPT !.hosts[mac].firmware_url = Some("") ]
    /\ UNCHANGED << queue, cancelSet, chan, scans, rowState, logs, devicesFile,
                    task, polled, api, now, faults, hist >>
    /\ UNCHANGED << hubVars, fwVars >>

NextFw ==
    \/ \E ip \in IPs : HostDiscovered(ip)
    \/ \E r \in Reqs : \E ip \in IPs : StartCheck(r, WireMac(ip))
    \/ \E r \in Reqs : \E S \in SUBSET IPs : BatchCheck(r, { WireMac(ip) : ip \in S })
    \/ \E r \in Reqs : StartCommit(r)
    \/ \E r \in Reqs : StartEnqueue(r)
    \/ \E r \in Reqs : \E f \in FwIds : CancelRead(r, f)
    \/ \E r \in Reqs : CancelFlag(r)
    \/ \E r \in Reqs : CancelCommit(r)
    \/ \E f \in FwIds : FwLoad(f)
    \/ ClearFirmwareUrl(WireMac(AllIPs[1]))
    \/ \E f \in FwIds : FwUrl(f)
    \/ \E f \in FwIds : FwTool(f)
    \/ \E f \in FwIds : FwTriage(f)
    \/ \E f \in FwIds : FwPersist(f)
    \/ \E f \in FwIds : FwCheck(f)
    \/ \E f \in FwIds : FwCancelPersist(f)
    \/ \E f \in FwIds : FwClearCancel(f)
    \/ \E f \in FwIds : FwFailPersist(f)

SpecFw == Init /\ [][NextFw]_vars

(* The start handlers beside the worker loop: the API creates and         *)
(* enqueues analyses, the worker polls as worker_loop does. Every handler  *)
(* that has begun runs to its end and the worker loop keeps polling.       *)
NextFwQueue ==
    \/ \E ip \in IPs : HostDiscovered(ip)
    \/ \E r \in Reqs : \E ip \in IPs : StartCheck(r, WireMac(ip))
    \/ \E r \in Reqs : \E S \in SUBSET IPs : BatchCheck(r, { WireMac(ip) : ip \in S })
    \/ \E r \in Reqs : StartCommit(r)
    \/ \E r \in Reqs : StartEnqueue(r)
    \/ \E j \in Tracked : EnqueueScan(j)
    \/ \E w \in Serving : WorkerDequeue(w)
    \/ \E w \in Serving : WorkerDequeueEmpty(w)

SpecFwQueue ==
    /\ Init /\ [][NextFwQueue]_vars
    /\ \A r \in Reqs : WF_vars(StartCommit(r)) /\ WF_vars(StartEnqueue(r))
    /\ \A w \in Serving : WF_vars(WorkerDequeue(w)) /\ WF_vars(WorkerDequeueEmpty(w))

(* C11: the hosts table holds exactly one row for every link-layer id      *)
(* that a scan job has persisted, whatever the interleaving of the jobs'   *)
(* selects and flushes, and no id has a second row.                        *)
C11_OneRowPerMac ==
    /\ DOMAIN inv.rows = DOMAIN inv.hosts
    /\ \A mac \in DOMAIN inv.rows :
          inv.rows[mac] = 1 /\ inv.hosts[mac].mac_address = mac
    /\ \A j \in Jobs :
          (task[j].pc = "done" /\ task[j].wrote # << >>)
          => HostMacs(task[j].hosts) \subseteq DOMAIN inv.rows
C11_Witness ==
    \E j, k \in Jobs :
        /\ j # k
        /\ task[j].pc = "done" /\ task[k].pc = "done"
        /\ task[j].wrote # << >> /\ task[j].hosts # << >>
        /\ IsSet(task[k].exc)
        /\ HostMacs(task[k].hosts) = HostMacs(task[j].hosts)

PortNumbers(rows) == [ i \in 1..Len(rows) |-> rows[i].port_number ]
Persisted(j) ==
    task[j].pc = "complete" /\ task'[j].pc = "pub_completed"

(* C12: when a scan job persists its result, the port rows of every host   *)
(* of the result are exactly the ports the job reported for that host, and *)
(* the port rows of every host outside the result are unchanged.           *)
C12_PortsReplaced ==
    [][ \A j \in Jobs :
          Persisted(j) =>
            /\ \A i \in 1..Len(task[j].hosts) :
                  PortNumbers(PortRowsOf(inv', EffectiveMac(task[j].hosts[i])))
                    = task[j].hosts[i].open_ports
            /\ \A mac \in DOMAIN inv.hosts \ HostMacs(task[j].hosts) :
                  PortRowsOf(inv', mac) = PortRowsOf(inv, mac) ]_vars

RECURSIVE RowCount(_, _)
RowCount(inventory, macs) ==
    IF macs = {} THEN 0
    ELSE LET mac == CHOOSE m \in macs : TRUE
         IN  Len(PortRowsOf(inventory, mac)) + RowCount(inventory, macs \ { mac })
WroteCompleted(t) == \E i \in 1..Len(t.wrote) : t.wrote[i] = COMPLETED

(* C14: once the worker has completed a job, hosts_discovered is the       *)
(* number of hosts the pipeline returned, live_hosts the number of those   *)
(* that are up, open_ports_found the number of port rows the job           *)
(* persisted, and the scan_completed event carries the same two values.    *)
C14_Counters ==
    \A j \in Jobs :
        WroteCompleted(task[j]) =>
          /\ scans[j].hosts_discovered = Len(task[j].hosts)
          /\ scans[j].live_hosts
               = Cardinality({ i \in 1..Len(task[j].hosts) : task[j].hosts[i].is_up })
          /\ scans[j].open_ports_found = RowCount(inv, HostMacs(task[j].hosts))
          /\ \A i \in 1..Len(chan[j]) :
                chan[j][i].type = "scan_completed" =>
                  /\ chan[j][i].hosts = scans[j].hosts_discovered
                  /\ chan[j][i].ports = scans[j].open_ports_found

SameButLastSeen(a, b) ==
    /\ DOMAIN a.hosts = DOMAIN b.hosts
    /\ \A mac \in DOMAIN a.hosts :
          /\ [ a.hosts[mac] EXCEPT !.last_seen = None ]
               = [ b.hosts[mac] EXCEPT !.last_seen = None ]
          /\ PortRowsOf(a, mac) = PortRowsOf(b, mac)

(* C13: a second run of a scan job, with the tools reporting what they     *)
(* reported in the first run and the prior-port-counts snapshot taken from *)
(* the inventory the first run left, changes no host row and no port row   *)
(* (service fields included) except for last_seen.                         *)
C13_RerunUnchanged ==
    [][ \A j \in Jobs :
          (task[j].pc = "ran" /\ task'[j].pc = "done")
          => SameButLastSeen(inv, inv') ]_vars

(* C15: the persisted current_stage of a job is between 0 and 4 in every   *)
(* state, and no step between two states in which the job is running       *)
(* lowers it.                                                              *)
C15_StageMonotone ==
    /\ [](\A j \in Jobs : scans[j].current_stage \in 0..4)
    /\ [][ \A j \in Jobs :
             (scans[j].status = RUNNING /\ scans'[j].status = RUNNING)
             => scans'[j].current_stage >= scans[j].current_stage ]_vars
C15_Witness ==
    \E j \in Jobs :
        /\ scans[j].status = RUNNING
        /\ scans[j].current_stage = 4
        /\ \A st \in 1..4 :
              \E i \in 1..Len(chan[j]) :
                  chan[j][i].type = "scan_progress" /\ chan[j][i].stage = st

(* C16: every job that is observed in a terminal status has started_at     *)
(* and completed_at set, with completed_at >= started_at >= created_at,    *)
(* whether the worker completed, failed or cancelled it or cancel_scan     *)
(* made it cancelled.                                                      *)
C16_TerminalTimestamps ==
    \A j \in Jobs :
        (Visible(j) /\ scans[j].status \in Terminal)
        => /\ IsSet(scans[j].started_at)
           /\ IsSet(scans[j].completed_at)
           /\ scans[j].completed_at[1] >= scans[j].started_at[1]
           /\ scans[j].started_at[1] >= scans[j].created_at[1]

Progress(texts) == SelectSeq(texts, LAMBDA m : m # Pong)

(* C17: every progress message published on a job's channel while a sink   *)
(* is registered for that job or globally is eventually delivered to that  *)
(* sink as its JSON payload (unless the sink has gone by then), and the    *)
(* progress payloads a sink has received are, in order, the first of those *)
(* published for it.                                                       *)
C17_HubDelivers ==
    /\ [](\A ws \in Sinks :
            /\ Len(Progress(sent[ws])) <= Len(owed[ws])
            /\ Progress(sent[ws]) = SubSeq(owed[ws], 1, Len(Progress(sent[ws]))))
    /\ \A ws \in Sinks : \A k \in 1..MaxMsgs :
          (Len(owed[ws]) >= k) ~> (Len(Progress(sent[ws])) >= k \/ ~Registered(ws))

FwTerminal == { COMPLETED, FAILED, CANCELLED }
Unfinished(mac) ==
    { f \in FwIds : /\ analyses[f] # None
                    /\ analyses[f][1].host_mac = mac
                    /\ analyses[f][1].status \notin FwTerminal }

(* C18: in every state every host has at most one firmware analysis whose  *)
(* status is not terminal.                                                 *)
C18_OneAnalysisPerHost ==
    \A ip \in IPs : Cardinality(Unfinished(WireMac(ip))) <= 1

FwRank(st) ==
    CASE st = PENDING -> 0 [] st = DOWNLOADING -> 1 [] st = DOWNLOADED -> 2
      [] st = EMBA_QUEUED -> 3 [] st = EMBA_RUNNING -> 4 [] st = EMBA_DONE -> 5
      [] st = TRIAGING -> 6 [] OTHER -> 7

(* C19: every change of an analysis's persisted status moves it forward in *)
(* the order pending, downloading, downloaded, emba_queued, emba_running,  *)
(* emba_done, triaging, terminal, and no step changes a terminal status.   *)
C19_FwStatusMonotone ==
    [][ \A f \in FwIds :
          (analyses[f] # None /\ analyses'[f][1].status # analyses[f][1].status)
          => /\ analyses[f][1].status \notin FwTerminal
             /\ FwRank(analyses'[f][1].status) > FwRank(analyses[f][1].status) ]_vars

InQueue(q, id) == \E i \in 1..Len(q) : q[i] = id
BeingEnqueued(f) ==
    \E r \in Reqs :
        fwReq[r].pc = "committed" /\ \E i \in 1..Len(fwReq[r].ids) : fwReq[r].ids[i] = f

(* C20: the id of every analysis a start handler has created is pushed on  *)
(* soc:firmware_queue by the time the handler returns, and every analysis  *)
(* created is eventually taken up by a worker, so that its status does not *)
(* stay pending for ever.                                                  *)
C20_FirmwareDequeued ==
    /\ [](\A f \in FwIds :
            (analyses[f] # None /\ analyses[f][1].status = PENDING /\ ~BeingEnqueued(f))
            => InQueue(fwQueue, f))
    /\ \A f \in FwIds :
          (analyses[f] # None)
          ~> (analyses[f] # None /\ analyses[f][1].status # PENDING /\ ~InQueue(fwQueue, f))

(* ------------------------------ worker_loop ---------------------------- *)
(* worker_loop of one worker process, seen by numbers of jobs: created     *)
(* (the ids enqueued so far), queued (the ids in soc:scan_queue), active   *)
(* (the size of active_tasks).                                             *)
(* Settings.worker_concurrency: worker_loop writes it to the log.          *)
WorkerConcurrency == 4
LoopFrame == UNCHANGED << scanVars, connections, globalSinks, sent, pings, owed,
                          started, firmwareConnections, bcast, fwVars >>

(* create_scan enqueues the id of a new job.                               *)
LoopEnqueue ==
    /\ loop.created < MaxLoopJobs
    /\ loop' = [ loop EXCEPT !.created = @ + 1, !.queued = @ + 1 ]
    /\ LoopFrame
(* dequeue_scan returned an id: asyncio.create_task(_process_scan(id)),    *)
(* active_tasks.add(task).                                                 *)
LoopDequeue ==
    /\ loop.queued > 0
    /\ loop' = [ loop EXCEPT !.queued = @ - 1, !.active = @ + 1 ]
    /\ LoopFrame
(* A task _process_scan has ended: its done callback discards it from      *)
(* active_tasks.                                                           *)
LoopTaskDone ==
    /\ loop.active > 0
    /\ loop' = [ loop EXCEPT !.active = @ - 1 ]
    /\ LoopFrame

NextLoop == LoopEnqueue \/ LoopDequeue \/ LoopTaskDone

SpecLoop == Init /\ [][NextLoop]_vars

(* ----------------------- a call of broadcast_scan ---------------------- *)
(* firmware_websocket: manager.connect_firmware(websocket, aid)            *)
ConnectFirmware(ws, f) ==
    /\ started
    /\ Fresh(ws)
    /\ firmwareConnections' =
          IF f \in DOMAIN firmwareConnections
          THEN [ firmwareConnections EXCEPT ![f] = Append(@, ws) ]
          ELSE (f :> << ws >>) @@ firmwareConnections
    /\ UNCHANGED << scanVars, connections, globalSinks, sent, pings, owed, started,
                    bcast, loop, fwVars >>

(* WebSocketDisconnect in firmware_websocket: manager.disconnect_firmware  *)
DisconnectFirmware(ws, f) ==
    /\ f \in DOMAIN firmwareConnections
    /\ \E i \in 1..Len(firmwareConnections[f]) : firmwareConnections[f][i] = ws
    /\ LET rest == SelectSeq(firmwareConnections[f], LAMBDA c : c # ws)
       IN  firmwareConnections' =
             IF rest = << >>
             THEN [ k \in DOMAIN firmwareConnections \ { f } |-> firmwareConnections[k] ]
             ELSE [ firmwareConnections EXCEPT ![f] = rest ]
    /\ UNCHANGED << scanVars, connections, globalSinks, sent, pings, owed, started,
                    bcast, loop, fwVars >>

(* targets = self._connections.get(scan_id, []) + self._global             *)
BroadcastTargets(j) ==
    (IF j \in DOMAIN connections THEN connections[j] ELSE << >>) \o globalSinks

(* broadcast_scan(j, data) is called: the message is serialised and the    *)
(* list of targets is built.                                               *)
BroadcastBegin(j, data) ==
    /\ started
    /\ bcast.pc = "idle"
    /\ bcast' = [ NoBroadcast EXCEPT
                    !.pc = IF BroadcastTargets(j) = << >> THEN "done" ELSE "send",
                    !.id = j, !.message = Some(JsonDumps(data)),
                    !.targets = BroadcastTargets(j),
                    !.atCall = { ws \in Sinks : Watching(ws, j) },
                    !.elsewhere = { ws \in Sinks : Registered(ws) /\ ~Watching(ws, j) } ]
    /\ UNCHANGED << scanVars, connections, globalSinks, sent, pings, owed, started,
                    firmwareConnections, loop, fwVars >>

(* The loop of broadcast_scan after send_text was called on ws and         *)
(* returned (ok) or raised.                                                *)
Attempt(b, ws, ok) ==
    [ b EXCEPT !.pos = @ + 1, !.attempted = Append(@, ws),
               !.failed = IF ok THEN @ ELSE @ \cup { ws } ]
LoopOn(b) == [ b EXCEPT !.pc = IF b.pos = Len(b.targets) THEN "done" ELSE "send" ]
(* Faulty variant: the exception of send_text leaves the call.             *)
ExceptionLeaves(b, ws, ok) ==
    IF ok THEN LoopOn(Attempt(b, ws, ok))
    ELSE [ Attempt(b, ws, ok) EXCEPT !.pc = "done", !.raised = TRUE ]
(* try: await ws.send_text(message) / except Exception: pass               *)
AfterSend(b, ws, ok) == LoopOn(Attempt(b, ws, ok))

(* await ws.send_text(message) for the next target: the text reaches the   *)
(* sink, or the call raises because the connection is gone.                *)
BroadcastSend(ok) ==
    /\ bcast.pc = "send"
    /\ LET ws == bcast.targets[bcast.pos + 1] IN
       /\ sent' = IF ok THEN [ sent EXCEPT ![ws] = Append(@, bcast.message[1]) ]
                  ELSE sent
       /\ bcast' = AfterSend(bcast, ws, ok)
    /\ UNCHANGED << scanVars, connections, globalSinks, pings, owed, started,
                    firmwareConnections, loop, fwVars >>

NextBroadcast ==
    \/ Lifespan
    \/ \E ws \in Sinks : \E j \in Jobs : Connect(ws, j)
    \/ \E ws \in Sinks : ConnectGlobal(ws)
    \/ \E ws \in Sinks : \E f \in FwIds : ConnectFirmware(ws, f)
    \/ \E ws \in Sinks : \E j \in Jobs : Disconnect(ws, j)
    \/ \E ws \in Sinks : DisconnectGlobal(ws)
    \/ \E ws \in Sinks : \E f \in FwIds : DisconnectFirmware(ws, f)
    \/ \E j \in Jobs : BroadcastBegin(j, ProgressEvent(1))
    \/ \E ok \in BOOLEAN : BroadcastSend(ok)

SpecBroadcast == Init /\ [][NextBroadcast]_vars

(* ------------------- the pipeline seen task by task -------------------- *)
(* The default of `concurrency` in stage2_arp_lookup, stage3_port_scan and *)
(* stage4_deep_scan, with which run_full_pipeline calls them; the ping     *)
(* sweep of stage 1 is one invocation.                                     *)
ArpConcurrency == 50
PortScanConcurrency == 20
DeepScanConcurrency == 5
Concurrency(k) ==
    CASE k = 2 -> ArpConcurrency [] k = 3 -> PortScanConcurrency
      [] k = 4 -> DeepScanConcurrency [] OTHER -> 1
(* completed[0] % 10 == 0 or completed[0] == len(hosts)                    *)
CheckpointEvery == 10
IsCheckpoint(c, n) == c % CheckpointEvery = 0 \/ c = n

(* The numbers of live hosts the ping sweep may find.                      *)
HostCounts == { 0, 1, MaxHosts }
(* Of the g hosts given to stage k, those whose task invokes a tool: all   *)
(* in stage 3, the hosts without a MAC in stage 2, the deep-scan targets   *)
(* in stage 4.                                                             *)
NeedTool(k, g) == IF k = 3 THEN { g } ELSE { 0, g \div 2, g }

SetRun(j, r) == task' = [ task EXCEPT ![j].run = r ]
RunFrame ==
    /\ UNCHANGED << queue, cancelSet, chan, scans, rowState, logs, inv, devicesFile,
                    polled, api, now, faults, hist >>
    /\ UNCHANGED << hubVars, fwVars >>

(* Faulty variant: the stage returns as soon as one task has finished.     *)
AnyDone(c) == c.done > 0
(* await asyncio.gather(tasks, return_exceptions=True): every task of the  *)
(* stage has finished.                                                     *)
GatherDone(c) == c.waiting = 0 /\ c.inflight = 0 /\ c.hook = 0
(* Faulty variant: the semaphore admits every task.                        *)
Unlimited(k, inflight) == TRUE
(* async with semaphore: a permit is free.                                 *)
SemaphoreFree(k, inflight) == inflight < Concurrency(k)

(* run_full_pipeline is called and stage 1 starts the ping sweep.          *)
PipeCall(j) ==
    LET r == task[j].run IN
    /\ r.stage = 0
    /\ SetRun(j, [ r EXCEPT !.stage = 1, !.calls = << 1 >>, !.t[1].inflight = 1 ])
    /\ RunFrame

(* The ping sweep returns with n live hosts; with none, run_full_pipeline  *)
(* returns.                                                                *)
Stage1Return(j, n) ==
    LET r == task[j].run IN
    /\ r.stage = 1 /\ r.t[1].inflight = 1
    /\ SetRun(j, [ r EXCEPT !.t[1] = [ NoTasks EXCEPT !.done = 1 ], !.given = n,
                            !.stage = IF n = 0 THEN 5 ELSE 1 ])
    /\ RunFrame

(* The hook raises at a stage boundary, where no per-host task exists.     *)
BoundaryRaise(j) ==
    LET r == task[j].run IN
    /\ r.stage \in 1..4 /\ r.t[1].done = 1
    /\ GatherDone(r.t[r.stage])
    /\ SetRun(j, [ r EXCEPT !.stage = 6 ])
    /\ RunFrame

(* Stage k is called with the hosts stage k-1 returned (stages 2 and 3     *)
(* leave out the hosts whose task ended with an exception) and creates its *)
(* per-host tasks; m of them will invoke a tool.                           *)
StageBegin(j, k, m) ==
    LET r == task[j].run
        g == IF r.stage \in { 2, 3 } THEN r.given - r.dropped ELSE r.given
    IN
    /\ r.stage = k - 1 /\ r.t[1].done = 1
    /\ GatherDone(r.t[r.stage])
    /\ m \in NeedTool(k, g)
    /\ SetRun(j, [ r EXCEPT !.stage = k, !.given = g, !.dropped = 0,
                            !.calls = Append(@, k),
                            !.summaryAt = IF k = 4 THEN Some(Len(r.pub)) ELSE @,
                            !.t[k] = [ NoTasks EXCEPT !.waiting = m, !.done = g - m ] ])
    /\ RunFrame

(* A per-host task of stage k enters `async with semaphore` and invokes    *)
(* its tool.                                                               *)
Acquire(j, k) ==
    LET r == task[j].run IN
    /\ r.t[k].waiting > 0
    /\ SemaphoreFree(k, r.t[k].inflight)
    /\ SetRun(j, [ r EXCEPT !.t[k].waiting = @ - 1, !.t[k].inflight = @ + 1 ])
    /\ RunFrame

(* The tool of a per-host task returns and the semaphore is released. The  *)
(* task ends with its host or with an exception; in stage 3 it counts      *)
(* itself as completed and, at a checkpoint, invokes the hook.             *)
ToolReturn(j, k) ==
    LET r == task[j].run
        c == r.completed + 1
    IN
    /\ r.t[k].inflight > 0
    /\ \/ /\ k # 3
          /\ SetRun(j, [ r EXCEPT !.t[k].inflight = @ - 1, !.t[k].done = @ + 1 ])
       \/ /\ k = 3
          /\ SetRun(j, IF IsCheckpoint(c, r.given)
                       THEN [ r EXCEPT !.t[k].inflight = @ - 1, !.t[k].hook = @ + 1,
                                       !.completed = c, !.marks = Append(@, c),
                                       !.pending = @ \cup { c } ]
                       ELSE [ r EXCEPT !.t[k].inflight = @ - 1, !.t[k].done = @ + 1,
                                       !.completed = c ])
       \/ /\ r.dropped < MaxDrops
          /\ SetRun(j, [ r EXCEPT !.t[k].inflight = @ - 1, !.t[k].done = @ + 1,
                                  !.dropped = @ + 1 ])
    /\ RunFrame

(* One of the hooks invoked at a stage-3 checkpoint publishes its event    *)
(* and returns, or raises; the task ends. Each hook in progress awaits     *)
(* Redis and the database on its own, so any of them may be the next.      *)
HookReturn(j) ==
    LET r == task[j].run IN
    /\ r.t[3].hook > 0
    /\ \E c \in r.pending :
        \/ SetRun(j, [ r EXCEPT !.t[3].hook = @ - 1, !.t[3].done = @ + 1,
                                !.pending = @ \ { c }, !.pub = Append(@, c) ])
        \/ /\ r.dropped < MaxDrops
           /\ SetRun(j, [ r EXCEPT !.t[3].hook = @ - 1, !.t[3].done = @ + 1,
                                   !.pending = @ \ { c },
                                   !.dropped = @ + 1 ])
    /\ RunFrame

(* Stage 4 has returned and run_full_pipeline returns.                     *)
PipeReturn(j) ==
    LET r == task[j].run IN
    /\ r.stage = 4
    /\ GatherDone(r.t[4])
    /\ SetRun(j, [ r EXCEPT !.stage = 5 ])
    /\ RunFrame

NextGather ==
    \/ \E j \in Tracked : PipeCall(j)
    \/ \E j \in Tracked : \E n \in HostCounts : Stage1Return(j, n)
    \/ \E j \in Tracked : BoundaryRaise(j)
    \/ \E j \in Tracked : \E k \in 2..4 : \E m \in 0..MaxHosts : StageBegin(j, k, m)
    \/ \E j \in Tracked : \E k \in 2..4 : Acquire(j, k)
    \/ \E j \in Tracked : \E k \in 2..4 : ToolReturn(j, k)
    \/ \E j \in Tracked : HookReturn(j)
    \/ \E j \in Tracked : PipeReturn(j)

SpecGather == Init /\ [][NextGather]_vars

(* ------------------- the port scan of one host, parsed ----------------- *)
(* str.isdigit() and int() on a token of the greppable output.             *)
Digits == { "0", "1", "2", "3", "4", "5", "6", "7", "8", "9" }
IsDigitToken(tok) == tok # << >> /\ \A i \in 1..Len(tok) : tok[i] \in Digits
DigitValue(ch) == CHOOSE n \in 0..9 : ToString(n) = ch
RECURSIVE IntOf(_)
IntOf(tok) ==
    IF tok = << >> THEN 0
    ELSE 10 * IntOf(SubSeq(tok, 1, Len(tok) - 1)) + DigitValue(tok[Len(tok)])

(* [int(p.strip()) for p in ports_str.split(",") if p.strip().isdigit()]   *)
ParsePortList(tokens) ==
    LET digit == SelectSeq(tokens, IsDigitToken)
    IN  [ i \in 1..Len(digit) |-> IntOf(digit[i]) ]

(* What the fast port scan may print: lines that hold no "-> [...]" (None) *)
(* and lines that do, given by the tokens between the brackets.            *)
FastOutputs ==
    { << >>,
      << Some(<< <<"2","2">> >>) >>,
      << Some(<< <<"2","2">>, <<"8","0">> >>) >>,
      << Some(<< <<"2","2">>, <<"2","2">> >>) >>,
      << Some(<< <<"o","p","e","n">> >>) >>,
      << None, Some(<< <<"8","0">> >>) >>,
      << Some(<< <<"2","2">> >>), Some(<< <<"8","0">> >>) >> }
(* What the fallback scan may report: the port elements of its XML, in     *)
(* order, each with its portid and the state of its state element.         *)
FallbackOutputs ==
    { << >>,
      << [ portid |-> <<"2","2">>, state |-> "open" ] >>,
      << [ portid |-> <<"2","2">>, state |-> "open" ],
         [ portid |-> <<"8","0">>, state |-> "closed" ] >>,
      << [ portid |-> <<"2","2">>, state |-> "filtered" ],
         [ portid |-> <<"8","0">>, state |-> "open" ] >> }
ExitCodes == { 0, 1 }

(* The loop over the lines of the fast scan: every line that matches       *)
(* replaces host.open_ports.                                               *)
RECURSIVE FastPhase(_, _)
FastPhase(ports, lines) ==
    IF lines = << >> THEN ports
    ELSE LET before == FastPhase(ports, SubSeq(lines, 1, Len(lines) - 1))
             line == lines[Len(lines)]
         IN  IF line # None THEN ParsePortList(line[1]) ELSE before
(* The loop over the port elements of the fallback scan: every open port   *)
(* with a portid is appended to host.open_ports.                           *)
FallbackPhase(ports, xml) ==
    LET open == SelectSeq(xml, LAMBDA el : el.state = "open" /\ el.portid # << >>)
    IN  ports \o [ i \in 1..Len(open) |-> IntOf(open[i].portid) ]

(* _rustscan_single: the host after the fast scan ended with fast and, if  *)
(* it ran, the fallback scan ended with fallback.                          *)
FallbackRuns(fast, ports) == fast.rc # 0 \/ ports = << >>
RustscanSingle(h, fast, fallback) ==
    LET first == IF fast.rc = 0 /\ fast.lines # << >>
                 THEN FastPhase(h.open_ports, fast.lines) ELSE h.open_ports
        second == IF FallbackRuns(fast, first)
                     /\ fallback.rc = 0 /\ fallback.xml # << >>
                  THEN FallbackPhase(first, fallback.xml) ELSE first
    IN  [ h EXCEPT !.open_ports = second ]

(* The port-scan task of one host that stage 2 returned runs to its end.   *)
PortScanTask(j, h, fast, fallback) ==
    /\ task[j].pc = "idle" /\ task[j].cur = 0
    /\ SetTask(j, [ task[j] EXCEPT !.pc = "scanned", !.cur = 3,
                                   !.given = << h >>,
                                   !.hosts = << RustscanSingle(h, fast, fallback) >>,
                                   !.report = Some([ fast |-> fast,
                                                     fallback |-> fallback ]) ])
    /\ RunFrame

NextPortScan ==
    \E j \in Tracked : \E ip \in IPs : \E h \in ArpOutcomes(DiscoveredHost(ip)) :
       \E frc, brc \in ExitCodes : \E lines \in FastOutputs : \E xml \in FallbackOutputs :
          PortScanTask(j, h, [ rc |-> frc, lines |-> lines ],
                             [ rc |-> brc, xml |-> xml ])

SpecPortScan == Init /\ [][NextPortScan]_vars

(* ----------------------- the ping sweep's timeout ---------------------- *)
(* The targets a scan may name: a network with a prefix length, a range    *)
(* ("10.0.0.1-50"), a single address or a host name.                       *)
PrefixLengths == 21..32
SweepTargets ==
    { [ kind |-> "cidr", prefix |-> p ] : p \in PrefixLengths }
    \cup { [ kind |-> "range", prefix |-> 0 ], [ kind |-> "host", prefix |-> 0 ] }
(* IPv4Network(target).num_addresses                                       *)
NumAddresses(prefix) == 2 ^ (32 - prefix)
(* _estimate_host_count                                                    *)
EstimateHostCount(target) ==
    CASE target.kind = "cidr" ->
            IF NumAddresses(target.prefix) - 2 > 1
            THEN NumAddresses(target.prefix) - 2 ELSE 1
      [] target.kind = "range" -> 256
      [] OTHER -> 1

(* The default of `base` in _ping_sweep_timeout.                           *)
PingSweepBase == 120
Max(a, b) == IF a >= b THEN a ELSE b
(* Faulty variant: the bounds of the ranges belong to the range above.     *)
BoundsExcluded(hosts, base) ==
    IF hosts < 1 THEN base
    ELSE IF hosts < 254 THEN Max(base, 180)
    ELSE IF hosts < 510 THEN Max(base, 300)
    ELSE IF hosts < 2046 THEN Max(base, 600)
    ELSE Max(base, 900)
(* _ping_sweep_timeout after hosts = _estimate_host_count(target)          *)
PingSweepTimeout(hosts, base) ==
    IF hosts <= 1 THEN base
    ELSE IF hosts <= 254 THEN Max(base, 180)
    ELSE IF hosts <= 510 THEN Max(base, 300)
    ELSE IF hosts <= 2046 THEN Max(base, 600)
    ELSE Max(base, 900)

(* _ping_sweep_timeout once the target was estimated at h hosts.           *)
SweepTimeout(j, target, h) ==
    /\ task[j].pc = "idle" /\ task[j].cur = 0
    /\ SetTask(j, [ task[j] EXCEPT !.pc = "sweeping",
                      !.sweep = Some([ target |-> target, hosts |-> h,
                                       timeout |-> PingSweepTimeout(h, PingSweepBase) ]) ])
    /\ RunFrame
(* stage1_ping_sweep computes the timeout of its ping sweep for a target.  *)
SweepTimeoutFor(j, target) == SweepTimeout(j, Some(target), EstimateHostCount(target))
(* The same for any estimate of the host count.                            *)
SweepTimeoutAt(j, h) == SweepTimeout(j, None, h)

NextTimeout ==
    \/ \E j \in Tracked : \E target \in SweepTargets : SweepTimeoutFor(j, target)
    \/ \E j \in Tracked : \E h \in 1..MaxEstimate : SweepTimeoutAt(j, h)

SpecTimeout == Init /\ [][NextTimeout]_vars

(* --------------------- the stages as list functions -------------------- *)
(* What asyncio.gather(..., return_exceptions=True) holds for a per-host   *)
(* task that ended with an exception.                                      *)
TaskError == [ exception |-> "Exception" ]
(* The results a per-host task of stage k may end with. A task that        *)
(* invokes a tool may also raise (the subprocess cannot be created, the    *)
(* output is not what the parser expects).                                 *)
TaskOutcomes(k, existing, h) ==
    CASE k = 2 -> ArpOutcomes(h) \cup (IF ArpNeedsProbe(h) THEN { TaskError } ELSE {})
      [] k = 3 -> PortScanOutcomes(h) \cup { TaskError }
      [] k = 4 -> IF IsDeepTarget(existing, h)
                  THEN DeepOutcomes(h) \cup { TaskError } ELSE { h }
GatherResults(k, existing, hosts) ==
    Choices([ i \in 1..Len(hosts) |-> TaskOutcomes(k, existing, hosts[i]) ])
(* The list a stage builds from the results: stages 2 and 3 append every   *)
(* result that is a DiscoveredHost; stage 4 takes each given host's deep   *)
(* result if there is one and the given host otherwise.                    *)
StageReturn(k, hosts, results) ==
    IF k = 4
    THEN [ i \in 1..Len(hosts) |->
             IF results[i] # TaskError THEN results[i] ELSE hosts[i] ]
    ELSE SelectSeq(results, LAMBDA r : r # TaskError)

(* The prior-port-counts maps the worker may hand to the pipeline: any     *)
(* snapshot of mac_address -> open_port_count of the host table.           *)
PriorKeys == { WireMac(AllIPs[1]), SurrogateMac(AllIPs[1]) }
PriorCounts ==
    UNION { IF M = {} THEN { << >> } ELSE [ M -> 0..2 ] : M \in SUBSET PriorKeys }

(* run_full_pipeline is called with the snapshot and stage1_ping_sweep has *)
(* returned the live hosts.                                                *)
SweepDone(j, L, existing) ==
    /\ task[j].pc = "idle" /\ task[j].cur = 0
    /\ L # << >>
    /\ SetTask(j, [ task[j] EXCEPT !.pc = "staged", !.cur = 1, !.hosts = L,
                                   !.existing = existing ])
    /\ RunFrame
(* Stage k is called with the hosts of the stage before and returns.       *)
StageRun(j, k) ==
    LET t == task[j] IN
    /\ t.pc = "staged" /\ t.cur = k - 1
    /\ \E results \in GatherResults(k, t.existing, t.hosts) :
          SetTask(j, [ t EXCEPT !.cur = k, !.given = t.hosts,
                                !.hosts = StageReturn(k, t.hosts, results),
                                !.deep = IF k = 4
                                         THEN { t.hosts[i].ip : i \in
                                                  { n \in 1..Len(t.hosts) :
                                                      IsDeepTarget(t.existing, t.hosts[n]) } }
                                         ELSE @ ])
    /\ RunFrame

NextStages ==
    \/ \E j \in Tracked : \E L \in Stage1Lists(Subnet) :
          \E existing \in PriorCounts : SweepDone(j, L, existing)
    \/ \E j \in Tracked : \E k \in 2..4 : StageRun(j, k)

SpecStages == Init /\ [][NextStages]_vars

(* An analysis nobody asked to cancel: no cancel request for it is under   *)
(* way and its id is not in soc:firmware_cancel.                           *)
NotCancelled(f) ==
    /\ ~IsCancelledFirmware(fwCancel, f)
    /\ \A r \in Reqs : ~(fwReq[r].handler = "cancel" /\ fwReq[r].ids = << f >>)
AllSucceeded(f) ==
    /\ fwTask[f].pc = "done"
    /\ fwTask[f].tools = << "download", "emba", "triage" >>
    /\ fwTask[f].exc = None
Completing(f) == fwTask[f].pc = "persist_c" /\ fwTask'[f].pc = "done"

FailureHandled(f) == fwTask[f].pc = "done" /\ fwTask[f].exc # None

(* C23: once the pipeline has handled an exception raised in a stage, the  *)
(* analysis is failed, its error_message is the exception's text cut to at *)
(* most 2000 characters, no adapter is called for it any more, and no step *)
(* changes its row afterwards.                                             *)
C23_FailureFreezes ==
    /\ [](\A f \in FwIds :
            FailureHandled(f)
            => /\ analyses[f][1].status = FAILED
               /\ analyses[f][1].error_message[1].kind = fwTask[f].exc[1].kind
               /\ analyses[f][1].error_message[1].len = Min(fwTask[f].exc[1].len, 2000))
    /\ [][ \A f \in FwIds :
             FailureHandled(f)
             => /\ analyses'[f] = analyses[f]
                /\ fwTask'[f].tools = fwTask[f].tools ]_vars

TriageCalled(f) == Len(fwTask[f].tools) = 3
ZeroSignal(tree) == \A l \in tree : l.chars < 10 \/ l.word \notin SIGNALS

(* C24: when no line of the analyzer's log tree is a signal line,          *)
(* run_triage raises nothing and returns the canned zero-findings report   *)
(* with risk_score None and the three counts 0, having sent no request to  *)
(* the LLM endpoint and written no ai_triage.md.                           *)
C24_NoFindings ==
    \A f \in FwIds :
        (TriageCalled(f) /\ ZeroSignal(fwTask[f].logs))
        => /\ fwTask[f].exc = None
           /\ fwTask[f].out = Some(<< NoFindingsReport, None, 0, 0, 0 >>)
           /\ fwTask[f].posts = 0
           /\ fwTask[f].file = None
C24_Witness ==
    \E f \in FwIds :
        /\ TriageCalled(f)
        /\ fwTask[f].logs = { ShortLine, NoiseLine }
        /\ fwTask[f].out # None /\ fwTask[f].out[1][3] = 0

ImportFields ==
    { "ip_address", "hostname", "vendor", "os_name", "os_family", "os_accuracy",
      "os_cpe", "firmware_url" }
(* A step of import_devices: devices.json exists and is left alone, and no *)
(* scan job moves.                                                         *)
Importing == devicesFile # None /\ devicesFile' = devicesFile /\ task' = task

(* C25: import_devices gives every host of devices.json, for each of the   *)
(* eight fields, the payload's value when that is not None and leaves the  *)
(* host's value as it was when it is None; so an import of what export     *)
(* wrote restores every non-null value that was exported.                  *)
C25_ImportKeepsOnNone ==
    [][ Importing =>
          \A mac \in DOMAIN devicesFile[1] : \A k \in ImportFields :
              LET val == devicesFile[1][mac][k] IN
              /\ val # None => inv'.hosts[mac][k] = val
              /\ val = None => inv'.hosts[mac][k] = HostRowOf(inv, mac)[k] ]_vars
(* Both scans have persisted the host, yet its last_seen is the one the    *)
(* file holds from before the second scan: devices.json was imported       *)
(* after it; os_name, None in the file, kept the second scan's value.      *)
C25_Witness ==
    /\ devicesFile # None
    /\ now = 3
    /\ \E mac \in DOMAIN devicesFile[1] :
          /\ \A j \in Jobs : task[j].pc = "done" => mac \in HostMacs(task[j].hosts)
          /\ devicesFile[1][mac].last_seen = Some(1)
          /\ inv.hosts[mac].last_seen = Some(1)
          /\ devicesFile[1][mac].os_name = None
          /\ inv.hosts[mac].os_name # None

(* The worker process keeps running: worker_loop polls and every           *)
(* _process_scan task, whose tool calls return, takes its next step. A     *)
(* create_scan or cancel_scan request that has begun is served to its end. *)
WorkerStep ==
    \/ \E w \in Serving : WorkerDequeue(w)
    \/ \E j \in Tracked :
          \/ WLoad(j) \/ WMarkRunning(j) \/ HookCheck(j) \/ HookWrite(j)
          \/ WComplete(j) \/ WPubCompleted(j) \/ WCancelPersist(j)
          \/ WClearCancel(j) \/ WFailPersist(j) \/ WFailPublish(j)
RequestStep ==
    \E j \in Tracked : CreateCommit(j) \/ ApiCancelFlag(j) \/ ApiCancelCommit(j)
SpecLive == Spec /\ WF_vars(WorkerStep) /\ WF_vars(RequestStep)

(* C26: every scan job that create_scan has created and committed reaches  *)
(* a terminal status, whatever the interleaving of the request with the    *)
(* worker, as long as no datastore or substrate call fails.                *)
C26_CreatedJobFinishes ==
    \A j \in Tracked :
        (rowState[j] = "committed")
        ~> (scans[j].status \in Terminal \/ faults > 0)

(* C28: once the progress hook has raised in a job (like any exception     *)
(* raised in the job), the pipeline is no longer running: the job is not   *)
(* at a hook invocation any more but in one of the worker's handlers, and  *)
(* from then on no tool of a further stage is started for it.              *)
C28_HookRaiseAborts ==
    /\ [](\A j \in Jobs : task[j].raised => task[j].pc \notin HookPcs)
    /\ [][ \A j \in Jobs : task[j].raised => task'[j].tools = task[j].tools ]_vars

ToolStarts(j, k) == task'[j].run.t[k].inflight > task[j].run.t[k].inflight

(* C27: within one run of the pipeline the stages are called in the order  *)
(* 1, 2, 3, 4, each at most once, and a tool of stage k+1 is only started  *)
(* when no per-host task of stage k is waiting, in flight or in the hook.  *)
C27_StagesInOrder ==
    /\ [](\A j \in Jobs :
            LET calls == task[j].run.calls IN
            /\ Len(calls) <= 4
            /\ \A i \in 1..Len(calls) : calls[i] = i)
    /\ [][ \A j \in Jobs : \A k \in 1..3 :
             ToolStarts(j, k + 1)
             => LET c == task[j].run.t[k] IN
                /\ c.waiting = 0 /\ c.inflight = 0 /\ c.hook = 0
                /\ task'[j].run.t[k] = c ]_vars
C27_Witness ==
    \E j \in Jobs :
        LET r == task[j].run IN
        /\ r.stage = 4 /\ r.calls = << 1, 2, 3, 4 >>
        /\ r.t[4].inflight > 0 /\ r.t[4].waiting > 0
        /\ r.t[2].done = MaxHosts /\ r.t[3].done = MaxHosts
        /\ Len(r.marks) > 1

(* C30: within one run of the pipeline at most 50 per-host tasks of stage  *)
(* 2, at most 20 of stage 3 and at most 5 of stage 4 have a tool           *)
(* invocation in flight.                                                   *)
C30_InFlightBounded ==
    \A j \in Jobs :
        /\ task[j].run.t[2].inflight <= 50
        /\ task[j].run.t[3].inflight <= 20
        /\ task[j].run.t[4].inflight <= 5
C30_Witness ==
    \E j \in Jobs :
        /\ task[j].run.t[2].inflight = 50
        /\ task[j].run.t[2].waiting > 0

SameHosts(given, returned) ==
    /\ Len(returned) = Len(given)
    /\ \A i \in 1..Len(given) : returned[i].ip = given[i].ip

(* C29: the list that stage 2, 3 or 4 returns holds exactly the hosts the  *)
(* stage was given, in the same order, whatever the per-host tasks ended   *)
(* with.                                                                   *)
C29_StageKeepsHosts ==
    \A j \in Jobs :
        (task[j].pc = "staged" /\ task[j].cur \in 2..4)
        => SameHosts(task[j].given, task[j].hosts)

(* The count the prior-port-counts map holds for the host's link-layer id, *)
(* if it holds one.                                                        *)
PriorCount(existing, h) ==
    IF EffectiveMac(h) \in DOMAIN existing THEN Some(existing[EffectiveMac(h)])
    ELSE None

(* C31: stage 4 invokes the deep-scan tool for a host if and only if the   *)
(* host's open-port list is non-empty and the prior-port-counts map does   *)
(* not hold, for the host's link-layer id, a count that is greater than    *)
(* zero and equal to the length of the open-port list.                     *)
C31_DeepScanRule ==
    \A j \in Jobs :
        (task[j].pc = "staged" /\ task[j].cur = 4)
        => \A i \in 1..Len(task[j].given) :
              LET h == task[j].given[i]
                  prior == PriorCount(task[j].existing, h)
              IN  h.ip \in task[j].deep
                  <=> /\ Len(h.open_ports) > 0
                      /\ ~(prior # None /\ prior[1] > 0
                           /\ prior[1] = Len(h.open_ports))
(* One host was skipped as unchanged and another was deep-scanned.         *)
C31_Witness ==
    \E j \in Jobs :
        /\ task[j].pc = "staged" /\ task[j].cur = 4
        /\ \E i, k \in 1..Len(task[j].given) :
              /\ task[j].given[i].open_ports # << >>
              /\ task[j].given[i].ip \notin task[j].deep
              /\ task[j].given[k].ip \in task[j].deep

(* Stage 3 of job j has been called and all its per-host tasks have ended. *)
Stage3Over(j) ==
    /\ task[j].run.stage = 3
    /\ task[j].run.t[3].waiting = 0
    /\ task[j].run.t[3].inflight = 0
    /\ task[j].run.t[3].hook = 0

(* C32: when stage 3 was given N hosts and its per-host tasks have ended,  *)
(* the per-host checkpoint of the hook has been invoked exactly once for   *)
(* each multiple of 10 up to N and exactly once for N, and for no other    *)
(* count, whatever the per-host scans ended with.                          *)
C32_CheckpointCounts ==
    \A j \in Jobs :
        Stage3Over(j)
        => LET marks == task[j].run.marks
               N == task[j].run.given
           IN  /\ { marks[i] : i \in 1..Len(marks) }
                    = { k \in 1..N : k % 10 = 0 \/ k = N }
               /\ \A a, b \in 1..Len(marks) : a # b => marks[a] # marks[b]

(* The positions of the hosts of a result that have no observed MAC.       *)
WithoutMac(hosts) == { i \in 1..Len(hosts) : hosts[i].mac = None }

(* C33: when a scan job persists its result, every host without an         *)
(* observed MAC is stored under an id that starts with "00:00:", and hosts *)
(* with different addresses are stored in different rows: the n hosts      *)
(* without a MAC leave n host rows.                                        *)
C33_SurrogateDistinct ==
    [][ \A j \in Jobs :
          Persisted(j) =>
            LET hosts == task[j].hosts
                ids == { EffectiveMac(hosts[i]) : i \in WithoutMac(hosts) }
            IN  /\ \A id \in ids : Take(id, 6) = <<"0","0",":","0","0",":">>
                /\ \A a, b \in WithoutMac(hosts) :
                      hosts[a].ip # hosts[b].ip
                      => EffectiveMac(hosts[a]) # EffectiveMac(hosts[b])
                /\ Cardinality(ids \cap DOMAIN inv'.hosts)
                     = Cardinality(WithoutMac(hosts)) ]_vars

(* The job persists the result of a run made with a snapshot of a          *)
(* non-empty inventory.                                                    *)
RunsAgain(j) == task[j].pc = "ran" /\ task'[j].pc \in { "done", "later" }
(* The deep-scan fields of a host row.                                     *)
DeepFields(row) ==
    << row.os_name, row.os_family, row.os_accuracy, row.os_cpe, row.nmap_raw_xml >>

(* C34: when a job persists its result, the row of every host that stage 4 *)
(* skipped as unchanged has the os_name, os_family, os_accuracy, os_cpe    *)
(* and raw deep-scan XML it had before the job.                            *)
C34_SkippedKeepsDeepFields ==
    [][ \A j \in Jobs :
          RunsAgain(j) =>
            \A i \in 1..Len(task'[j].hosts) :
                LET h == task'[j].hosts[i]
                    mac == EffectiveMac(h)
                IN  (h.open_ports # << >> /\ SkipUnchanged(task'[j].existing, h))
                    => DeepFields(inv'.hosts[mac]) = DeepFields(inv.hosts[mac]) ]_vars
(* The same for the hosts whose MAC was observed.                          *)
SkippedWithMacKeepsDeepFields ==
    [][ \A j \in Jobs :
          RunsAgain(j) =>
            \A i \in 1..Len(task'[j].hosts) :
                LET h == task'[j].hosts[i]
                    mac == EffectiveMac(h)
                IN  (h.mac # None /\ h.open_ports # << >>
                     /\ SkipUnchanged(task'[j].existing, h))
                    => DeepFields(inv'.hosts[mac]) = DeepFields(inv.hosts[mac]) ]_vars

(* The status of analysis f changes (or the analysis is created) in the    *)
(* step.                                                                   *)
StatusCommitted(f) ==
    /\ analyses'[f] # None
    /\ analyses[f] = None \/ analyses'[f][1].status # analyses[f][1].status

(* C35: after every committed status transition of a firmware analysis,    *)
(* whether made by the pipeline or by cancel_firmware_analysis, the        *)
(* firmware_status of the analysis' host row equals the analysis' status.  *)
C35_HostMirrorsStatus ==
    [][ \A f \in FwIds :
          StatusCommitted(f)
          => LET mac == analyses'[f][1].host_mac
             IN  inv'.hosts[mac].firmware_status = Some(analyses'[f][1].status) ]_vars

(* C36: a call broadcast_scan(id, m) calls send_text, once, on every sink  *)
(* that was registered under scan id `id` or globally when the call was    *)
(* made and on no sink registered only under another scan id or under a    *)
(* firmware id; a send that raises neither keeps m from the remaining      *)
(* sinks nor leaves the call.                                              *)
C36_BroadcastReachesAll ==
    /\ ~bcast.raised
    /\ bcast.pc = "done" =>
         /\ { bcast.attempted[i] : i \in 1..Len(bcast.attempted) } = bcast.atCall
         /\ Len(bcast.attempted) = Cardinality(bcast.atCall)
         /\ \A i \in 1..Len(bcast.attempted) : bcast.attempted[i] \notin bcast.elsewhere
         /\ \A ws \in bcast.atCall \ bcast.failed :
               \E i \in 1..Len(sent[ws]) : sent[ws][i] = bcast.message[1]
         /\ \A ws \in Sinks \ bcast.atCall : sent[ws] = << >>
(* The send to the first sink raised, a later sink got the message, and a  *)
(* sink registered elsewhere got nothing.                                  *)
C36_Witness ==
    /\ bcast.pc = "done"
    /\ Len(bcast.attempted) >= 2
    /\ bcast.attempted[1] \in bcast.failed
    /\ \E ws \in bcast.atCall \ bcast.failed : sent[ws] # << >>
    /\ bcast.elsewhere # {}

(* C37: within one scan job the events "Scanned k/N" of stage 3 are        *)
(* published in strictly increasing order of k, and none of them is        *)
(* published after the stage-3 summary hook was invoked.                   *)
C37_ScannedInOrder ==
    \A j \in Jobs :
        LET r == task[j].run IN
        /\ \A a, b \in 1..Len(r.pub) : a < b => r.pub[a] < r.pub[b]
        /\ r.summaryAt # None => Len(r.pub) = r.summaryAt[1]
(* No "Scanned k/N" event follows the stage-3 summary.                     *)
ScannedBeforeSummary ==
    \A j \in Jobs :
        task[j].run.summaryAt # None => Len(task[j].run.pub) = task[j].run.summaryAt[1]

(* C38: the set of active per-job tasks of a worker process never holds    *)
(* more than settings.worker_concurrency tasks, however many job ids wait  *)
(* in the queue.                                                           *)
C38_ActiveBounded == loop.active <= WorkerConcurrency

(* C39: after the port scan of a host, its open-port list holds no port    *)
(* number more than once, whether the ports came from the fast scan, from  *)
(* the fallback scan, or from both.                                        *)
C39_NoDuplicatePorts ==
    \A j \in Jobs :
        task[j].pc = "scanned"
        => LET ports == task[j].hosts[1].open_ports
           IN  \A a, b \in 1..Len(ports) : a # b => ports[a] # ports[b]

(* C40: with the default base of 120 s the ping-sweep timeout for an       *)
(* estimated host count h is 120 for h <= 1, 180 for 2..254, 300 for       *)
(* 255..510, 600 for 511..2046 and 900 from 2047 on, and no smaller host   *)
(* count gets a longer timeout.                                            *)
C40_TimeoutTable ==
    \A j \in Jobs :
        task[j].sweep # None
        => LET h == task[j].sweep[1].hosts
               timeout == task[j].sweep[1].timeout
           IN  /\ h <= 1 => timeout = 120
               /\ (2 <= h /\ h <= 254) => timeout = 180
               /\ (255 <= h /\ h <= 510) => timeout = 300
               /\ (511 <= h /\ h <= 2046) => timeout = 600
               /\ h >= 2047 => timeout = 900
               /\ \A g \in 1..h : PingSweepTimeout(g, PingSweepBase) <= timeout
(* The timeout computed at a boundary of the table.                        *)
C40_Witness ==
    \E j \in Jobs :
        /\ task[j].sweep # None
        /\ task[j].sweep[1].hosts = 2047
        /\ task[j].sweep[1].timeout = 900

====
